---- MODULE Spec2Model ----
(***************************************************************************)
(* A model of the openapitools SDK: the conversation drivers of the        *)
(* OpenAI and Anthropic adapters (createOpenAIChatbot,                     *)
(* createAnthropicChatbot), the tool registry's auto-refresh bookkeeping   *)
(* and the process executor of BaseToolsAdapter.                           *)
(*                                                                         *)
(* JavaScript runs a handler to its next await without interruption, so    *)
(* every action below is one such segment: it starts where a promise       *)
(* settles (the model client answers, the tool handler answers) and ends   *)
(* at the next await or at the return of invoke().                         *)
(***************************************************************************)
EXTENDS Integers, Sequences, FiniteSets, TLC

(***************************************************************************)
(* Bounds of the model.                                                    *)
(***************************************************************************)
\* tool-calling responses the model client gives in one run
MaxToolTurns == 2
\* invoke() calls made in one run
MaxInvokes == 2
\* content items (Anthropic) / tool calls (OpenAI) in one model response
MaxItems == 2
\* tool executions in one run
MaxExecs == 3
\* the largest auto-refresh threshold an adapter is constructed with
MaxThreshold == 2
\* tool-calling responses in one run with overlapping invoke() calls
MaxConcToolTurns == 1
\* calls of initialize, refreshTools and getToolsByNames in one run
MaxRegistryCalls == 3
\* resets, reads and caller-side changes of a history in one run
MaxHistoryOps == 2

\* protected autoRefreshCount: number = 100
DefaultAutoRefreshCount == 100

VARIABLES
  provider,     \* "openai" | "anthropic": which chatbot this driver is
  messages,     \* the driver's conversation history (const messages: any[])
  owner,        \* ghost: for each history entry, the invoke() that appended it
  pc,           \* per invoke(): "idle" | "awaitModel" | "awaitTool" | "awaitCont"
  stack,        \* per invoke(): the frames of processResponse, innermost last
  request,      \* per invoke(): the messages of the model request in flight
  result,       \* per invoke(): the ChatbotResult last returned
  last,         \* ghost: what the last step did
  heard,        \* ghost: per invoke(), the text segments the model has sent it
  modelCalls,   \* ghost: model requests answered so far (names the responses)
  toolRuns,     \* ghost: the tool-call ids handed to the tool handler, in order
  invokes,      \* ghost: invoke() calls made so far
  toolBudget,   \* tool-calling responses the model client may still give
  alwaysTools,  \* TRUE: the model client answers every request with tool calls
  held,         \* the array the caller holds: a history it was returned
  peer,         \* the history of a second driver created from the same adapter
  historyOps,   \* ghost: resets, reads and caller-side changes so far
  system,       \* defaultLlmConfig.system of the driver, or NoSystem
  scenario,     \* ghost: what the caller, the model client and the tool handler
                \* did so far, in order and free of the provider's formats
  \* ---- BaseToolsAdapter ----
  localMode,          \* this.localMode
  toolsMap,           \* this.toolsMap: lower-case name -> Tool
  toolCallCount,      \* this.toolCallCount
  autoRefreshCount,   \* this.autoRefreshCount
  environmentChecks,  \* this.environmentChecks: kind -> EnvironmentCheck or NotChecked
  host,               \* the commands the host can run
  pcE,                \* per execution: where the executor of createToolExecutor is
  execTool,           \* per execution: the Tool it runs
  execResult,         \* per execution: the ToolExecutionResult it resolved to
  child,              \* per execution: the spawned child process, or NoChild
  uncaught,           \* an 'error' event found no listener: an uncaught exception
  trace,              \* ghost: what the executions did, for the properties
  handlerCall,        \* per execution: the tool handler it was called through
  environmentVariables,  \* this.environmentVariables
  execArgs,           \* per execution: the args its executor was called with
  handed,             \* per execution: the object its child was handed as JSON
  \* ---- BaseToolsAdapter: the registry ----
  initialized,                  \* this.initialized
  skipInitialEnvironmentCheck,  \* this.skipInitialEnvironmentCheck
  locator,            \* this.apiKey, this.folderPath and how the constructor ended
  pcR,                \* per registry call: the await it is at
  opR,                \* per registry call: the operation and its arguments
  retR,               \* per registry call: how it settled and what it returned
  lastR               \* ghost: what the last step of a registry call did

histVars == <<held, peer, historyOps>>

drvVars == <<provider, messages, owner, pc, stack, request, result, last, heard,
             modelCalls, toolRuns, invokes, toolBudget, alwaysTools, histVars,
             system, scenario>>

envVars == <<environmentVariables, execArgs, handed>>

adapterVars == <<envVars, localMode, toolsMap, toolCallCount, autoRefreshCount, environmentChecks,
                 host, pcE, execTool, execResult, child, uncaught, trace,
                 handlerCall, initialized, skipInitialEnvironmentCheck, locator,
                 pcR, opR, retR, lastR>>

registryVars == <<initialized, skipInitialEnvironmentCheck, locator, pcR, opR, retR,
                  lastR>>

vars == <<drvVars, adapterVars>>

Providers == {"openai", "anthropic"}
\* invoke() calls that may be in flight together
ConcCalls == {1, 2}
\* A text is the sequence of the segments it was concatenated from; the empty
\* string is <<>>.  JavaScript null, as the content of an OpenAI message:
Null == << "<null>" >>
NoResult == [text |-> << "<none>" >>, messages |-> <<>>]

(***************************************************************************)
(* What the external collaborators can answer.                             *)
(***************************************************************************)
ToolName == "echo"
CallId(k, j) == "call_" \o ToString(k) \o "_" \o ToString(j)
TextOf(k, j) == << "t" \o ToString(k) \o "_" \o ToString(j) >>

\* errors the model client rejects with: a transport error without status and
\* an API error with status and details
ModelErrors ==
  { [status |-> 0, message |-> "fetch failed", error |-> ""],
    [status |-> 500, message |-> "overloaded", error |-> "api_error"] }

\* the k-th OpenAI response with n tool calls
OpenAIMessage(k, c, n) ==
  [content |-> c,
   tool_calls |-> [j \in 1..n |-> [id |-> CallId(k, j), name |-> ToolName]]]

OpenAIResponses(k) ==
  { OpenAIMessage(k, c, n) : c \in {Null, TextOf(k, 0)}, n \in 0..MaxItems }

\* the k-th Anthropic response: a list of text and tool_use items
AnthropicItem(k, j, type) ==
  IF type = "text"
    THEN [type |-> "text", text |-> TextOf(k, j)]
    ELSE [type |-> "tool_use", id |-> CallId(k, j), name |-> ToolName]

AnthropicShapes ==
  UNION { [1..n -> {"text", "tool_use"}] : n \in 1..MaxItems }

AnthropicResponses(k) ==
  { [content |-> [j \in DOMAIN s |-> AnthropicItem(k, j, s[j])]] :
      s \in AnthropicShapes }

IsToolUse(item) == item.type = "tool_use"
IsText(item) == item.type = "text"

\* whether a response asks for a tool
HasToolCalls(p, resp) ==
  IF p = "openai"
    THEN Len(resp.tool_calls) > 0
    ELSE \E j \in DOMAIN resp.content : IsToolUse(resp.content[j])

Responses(p, k) ==
  IF p = "openai" THEN OpenAIResponses(k) ELSE AnthropicResponses(k)

\* the tool-call ids of a response, in the order the model wrote them
RECURSIVE ToolUseIds(_)
ToolUseIds(items) ==
  IF items = <<>> THEN <<>>
  ELSE (IF IsToolUse(Head(items)) THEN <<Head(items).id>> ELSE <<>>)
       \o ToolUseIds(Tail(items))

RequestedIds(p, resp) ==
  IF p = "openai"
    THEN [j \in DOMAIN resp.tool_calls |-> resp.tool_calls[j].id]
    ELSE ToolUseIds(resp.content)

\* what the tool handler can answer: {output}, {error}, or a rejection
ToolOutcomes ==
  { [kind |-> "output", val |-> "out"],
    [kind |-> "error", val |-> "Tool echo not found in available tools"],
    [kind |-> "throw", val |-> "boom"] }

(***************************************************************************)
(* Message shapes and conversions of the two drivers.                      *)
(***************************************************************************)
UserMessage(input) == [role |-> "user", content |-> input]
AssistantText(text) == [role |-> "assistant", content |-> text]

\* JSON.stringify({output: v}) / JSON.stringify({error: v})
JSONOutput(v) == "{\"output\":\"" \o v \o "\"}"
JSONError(v) == "{\"error\":\"" \o v \o "\"}"

\* the content of the tool-result message for one answer of the tool handler
ToolResultContent(outcome) ==
  CASE outcome.kind = "output" -> JSONOutput(outcome.val)
    [] outcome.kind = "error" -> JSONError(outcome.val)
    [] outcome.kind = "throw" -> JSONError("Failed to execute tool: " \o outcome.val)

OpenAIAssistantToolCalls(message) ==
  [role |-> "assistant", content |-> message.content,
   tool_calls |-> message.tool_calls]

OpenAIToolMessage(toolCall, outcome) ==
  [tool_call_id |-> toolCall.id, role |-> "tool", name |-> toolCall.name,
   content |-> ToolResultContent(outcome)]

AnthropicAssistantContent(resp) ==
  [role |-> "assistant", blocks |-> resp.content]

AnthropicToolResult(item, outcome) ==
  [role |-> "user",
   blocks |-> << [type |-> "tool_result", tool_use_id |-> item.id,
                  content |-> ToolResultContent(outcome)] >>]

\* items.filter(text).map(item => item.text).join("")
RECURSIVE JoinText(_)
JoinText(items) ==
  IF items = <<>> THEN <<>>
  ELSE (IF IsText(Head(items)) THEN Head(items).text ELSE <<>>)
       \o JoinText(Tail(items))

ProviderName(p) == IF p = "openai" THEN "OpenAI" ELSE "Anthropic"

\* the catch block of invoke(): the error string shown to the caller
FormatError(p, e) ==
  IF e.status # 0
    THEN << ProviderName(p) \o " API Error (" \o ToString(e.status) \o "): "
            \o e.message
            \o (IF e.error # "" THEN "\nDetails: \"" \o e.error \o "\"" ELSE "") >>
    ELSE << "Error in " \o ProviderName(p) \o " API: " \o e.message >>



\* the TypeError of reading .length of a null content
NullLengthError ==
  [status |-> 0, error |-> "",
   message |-> "Cannot read properties of null (reading 'length')"]

(***************************************************************************)
(* Arrays.  A JavaScript array is an object: two names can stand for the   *)
(* same array.  An array other than the driver's history is a record of    *)
(* whether it is that very array (alias) and of the entries its holder put *)
(* or found in it (items); what it holds now is HeldItems.                 *)
(***************************************************************************)
\* (mutant) a driver that hands out its history itself
MessagesItself(msgs) == [alias |-> TRUE, items |-> msgs]

\* [...messages]: a new array with the entries of the history
SpreadMessages(msgs) == [alias |-> FALSE, items |-> msgs]

\* (mutant) drivers that keep their histories in one array of the adapter
NewHistoryShared == [alias |-> TRUE, items |-> <<>>]

\* const messages: any[] = [] of another call of createOpenAIChatbot /
\* createAnthropicChatbot: a new array
NewHistory == [alias |-> FALSE, items |-> <<>>]

\* the caller holds no array yet
NoHeld == [alias |-> FALSE, items |-> <<>>, from |-> "none", after |-> "none"]

\* (mutant) a reset that forgets all but the first entry
KeepFirst(msgs) == IF msgs = <<>> THEN <<>> ELSE << msgs[1] >>

\* messages.length = 0
Truncate(msgs) == <<>>

(***************************************************************************)
(* Reading the history.                                                    *)
(***************************************************************************)
Range(seq) == { seq[j] : j \in DOMAIN seq }

\* an assistant turn that carries tool-call requests
IsToolCallTurn(m) ==
  \/ "tool_calls" \in DOMAIN m
  \/ "blocks" \in DOMAIN m /\ m.role = "assistant"

\* the call ids such a turn requests, in order
TurnIds(m) ==
  IF "tool_calls" \in DOMAIN m
    THEN [j \in DOMAIN m.tool_calls |-> m.tool_calls[j].id]
    ELSE ToolUseIds(m.blocks)

IsToolResult(m) ==
  \/ "tool_call_id" \in DOMAIN m
  \/ "blocks" \in DOMAIN m /\ m.role = "user"

ResultId(m) ==
  IF "tool_call_id" \in DOMAIN m THEN m.tool_call_id ELSE m.blocks[1].tool_use_id

\* the positions of the tool results for call id in a history
ResultsFor(msgs, id) ==
  { j \in DOMAIN msgs : IsToolResult(msgs[j]) /\ ResultId(msgs[j]) = id }

\* the tool-call turns of a history that still lack a result
UnfinishedTurns(msgs) ==
  { i \in DOMAIN msgs :
      /\ IsToolCallTurn(msgs[i])
      /\ \E id \in Range(TurnIds(msgs[i])) :
           \A j \in ResultsFor(msgs, id) : j < i }

\* two texts made of the same segments
SameSegments(a, b) == Len(a) = Len(b) /\ Range(a) = Range(b)

\* (mutant) a request that leaves out the turns still waiting for tool results
CurrentMessagesSettled(msgs) ==
  SelectSeq(msgs, LAMBDA m :
    ~(IsToolCallTurn(m)
      /\ \E id \in Range(TurnIds(m)) : ResultsFor(msgs, id) = {}))

\* const currentMessages = [...messages]: the request carries the whole history
CurrentMessages(msgs) == msgs

\* no system prompt: llmConfig.system is left out, or ""
NoSystem == ""

\* the system prompts a driver is configured with
SystemPrompts == { "be brief" }

SystemMessage(sys) == [role |-> "system", content |-> << sys >>]

\* the messages of the first request of invoke(): OpenAI takes the system
\* prompt as a first message, Anthropic as an option next to the messages
RequestMessages(p, sys, current) ==
  IF /\ p = "openai"
     /\ sys # NoSystem
     /\ Len(current) > 0
     /\ current[1].role # "system"
    THEN << SystemMessage(sys) >> \o current
    ELSE current

\* delete defaultLlmConfig.system, the first statement of the try block of the
\* OpenAI invoke()
AfterDelete(p, sys) == IF p = "openai" THEN NoSystem ELSE sys

\* (mutant) a catch block that returns the error without recording it
CatchAppendDropped(p, msgs, e) == msgs

\* (mutant) a catch block that puts the error in the place of the last message
CatchAppendReplacing(p, msgs, e) ==
  Append(SubSeq(msgs, 1, Len(msgs) - 1), AssistantText(FormatError(p, e)))

\* the catch block of invoke() records the error in the history
CatchAppend(p, msgs, e) == Append(msgs, AssistantText(FormatError(p, e)))

(***************************************************************************)
(* processResponse, run from where it is resumed to its next await.  The   *)
(* outcome of a segment is a record: the history and the frames it leaves, *)
(* and how it ends: "awaitTool" (a tool call was handed to the handler),   *)
(* "awaitCont" (a continuation request was sent), "return" (processResponse*)
(* of the outermost frame returned ret) or "throw" (err propagates to the  *)
(* catch block of invoke()).                                               *)
(***************************************************************************)
Segment(msgs, stk, end, ret, err) ==
  [messages |-> msgs, stack |-> stk, end |-> end, ret |-> ret, err |-> err]

NoError == [status |-> 0, message |-> "", error |-> ""]

Top(stk) == stk[Len(stk)]
Pop(stk) == SubSeq(stk, 1, Len(stk) - 1)
SetTop(stk, f) == [stk EXCEPT ![Len(stk)] = f]

\* ---- OpenAI ----
\* entry of processResponse(response)
OpenAIProcessResponse(msgs, stk, message) ==
  IF Len(message.tool_calls) > 0
    THEN Segment(Append(msgs, OpenAIAssistantToolCalls(message)),
                 Append(stk, [resp |-> message, i |-> 1, toolResults |-> <<>>]),
                 "awaitTool", <<>>, NoError)
    ELSE LET responseText == IF message.content = Null THEN <<>> ELSE message.content
         IN Segment(Append(msgs, AssistantText(responseText)), stk,
                    "return", responseText, NoError)

\* the tool handler answered the call the innermost frame waits for
OpenAIAfterTool(msgs, stk, outcome) ==
  LET f == Top(stk)
      toolResults == Append(f.toolResults,
                            OpenAIToolMessage(f.resp.tool_calls[f.i], outcome))
  IN IF f.i < Len(f.resp.tool_calls)
       THEN Segment(msgs,
                    SetTop(stk, [f EXCEPT !.i = f.i + 1,
                                          !.toolResults = toolResults]),
                    "awaitTool", <<>>, NoError)
       ELSE Segment(msgs \o toolResults,
                    SetTop(stk, [f EXCEPT !.toolResults = toolResults]),
                    "awaitCont", <<>>, NoError)

\* the continuation arrived
OpenAIAfterContinuation(msgs, stk, message) ==
  IF Len(message.tool_calls) > 0
    THEN OpenAIProcessResponse(msgs, stk, message)
    ELSE LET pushed == Append(msgs, AssistantText(message.content))
         IN IF message.content = Null
              THEN Segment(pushed, <<>>, "throw", <<>>, NullLengthError)
              ELSE Segment(pushed, <<>>, "return", message.content, NoError)

\* ---- Anthropic ----
\* the for loop over response.content, from item i of the innermost frame;
\* at its end processResponse returns responseText to the frame that awaits it
RECURSIVE AnthropicLoop(_, _)
AnthropicLoop(msgs, stk) ==
  LET f == Top(stk)
      items == f.resp.content
  IN IF f.i > Len(items)
       THEN IF Len(stk) = 1
              THEN Segment(msgs, <<>>, "return", f.text, NoError)
              ELSE LET g == Top(Pop(stk))
                   IN AnthropicLoop(msgs,
                        SetTop(Pop(stk), [g EXCEPT !.text = g.text \o f.text,
                                                   !.i = g.i + 1]))
       ELSE IF IsText(items[f.i])
         THEN AnthropicLoop(msgs,
                SetTop(stk, [f EXCEPT !.text = f.text \o items[f.i].text,
                                      !.i = f.i + 1]))
         ELSE Segment(Append(msgs, AnthropicAssistantContent(f.resp)), stk,
                      "awaitTool", <<>>, NoError)

\* entry of processResponse(response); a text-only response is a frame whose
\* loop is skipped: it pushes the joined text and returns it
AnthropicProcessResponse(msgs, stk, resp) ==
  IF \A j \in DOMAIN resp.content : IsText(resp.content[j])
    THEN LET fullText == JoinText(resp.content)
         IN AnthropicLoop(Append(msgs, AssistantText(fullText)),
                          Append(stk, [resp |-> resp, i |-> Len(resp.content) + 1,
                                       text |-> fullText]))
    ELSE AnthropicLoop(msgs, Append(stk, [resp |-> resp, i |-> 1, text |-> <<>>]))

AnthropicAfterTool(msgs, stk, outcome) ==
  LET f == Top(stk)
  IN Segment(Append(msgs, AnthropicToolResult(f.resp.content[f.i], outcome)),
             stk, "awaitCont", <<>>, NoError)

AnthropicAfterContinuation(msgs, stk, resp) ==
  IF \E j \in DOMAIN resp.content : IsToolUse(resp.content[j])
    THEN AnthropicProcessResponse(msgs, stk, resp)
    ELSE LET f == Top(stk)
             continuationText == JoinText(resp.content)
         IN AnthropicLoop(Append(msgs, AssistantText(continuationText)),
                          SetTop(stk, [f EXCEPT !.text = f.text \o continuationText,
                                                !.i = f.i + 1]))

\* ---- either driver ----
ProcessResponse(p, msgs, stk, resp) ==
  IF p = "openai" THEN OpenAIProcessResponse(msgs, stk, resp)
                  ELSE AnthropicProcessResponse(msgs, stk, resp)

AfterTool(p, msgs, stk, outcome) ==
  IF p = "openai" THEN OpenAIAfterTool(msgs, stk, outcome)
                  ELSE AnthropicAfterTool(msgs, stk, outcome)

\* (mutant) a driver that stops at the first nested tool request
AfterContinuationDepthLimited(p, msgs, stk, resp) ==
  IF HasToolCalls(p, resp)
    THEN Segment(Append(msgs, AssistantText(<< "max tool-use depth exceeded" >>)),
                 <<>>, "return", << "max tool-use depth exceeded" >>, NoError)
    ELSE IF p = "openai" THEN OpenAIAfterContinuation(msgs, stk, resp)
                         ELSE AnthropicAfterContinuation(msgs, stk, resp)

AfterContinuation(p, msgs, stk, resp) ==
  IF p = "openai" THEN OpenAIAfterContinuation(msgs, stk, resp)
                  ELSE AnthropicAfterContinuation(msgs, stk, resp)

\* the tool call the innermost frame has handed to the handler
CurrentCallId(p, stk) ==
  LET f == Top(stk)
  IN IF p = "openai" THEN f.resp.tool_calls[f.i].id ELSE f.resp.content[f.i].id


(***************************************************************************)
(* BaseToolsAdapter: the auto-refresh counter, the Environment Check cache *)
(* and the executors of createToolExecutor.                                *)
(***************************************************************************)
\* executions that may be in flight together
Execs == {1, 2}
Commands == {"python", "python3", "bash"}

NotChecked == [scriptType |-> "", valid |-> FALSE, executor |-> "", error |-> ""]
NoChild == [command |-> "", args |-> <<>>]
NoExecResult == [pending |-> TRUE]

Kinds == {"python", "bash"}

Tool(name, kind, script, path, version, schema) ==
  [name |-> name, script_type |-> kind, script |-> script, script_path |-> path,
   version_name |-> version, input_schema |-> schema]

NoTool == Tool("", "", "", "", "", "")

\* String.prototype.toLowerCase, on the names that occur
Lower(n) ==
  CASE n = "Echo" -> "echo"
    [] n = "Calc" -> "calc"
    [] OTHER -> n

\* ---- the tools folder ----
\* path.join(folderPath, `${toolName}-${versionName}${scriptExtension}`)
ScriptPath(toolName, versionName, kind) ==
  "/tools/" \o toolName \o "-" \o versionName \o
    (IF kind = "python" THEN ".py" ELSE ".sh")

Version(kind, schema) == [script_type |-> kind, input_schema |-> schema]

\* tools.json with the script files next to it: "lost" names a production
\* version it does not have and the script of "nofile" is not there
FolderV1 ==
  [manifest |->
     << [name |-> "echo", production_version_name |-> "v1",
         versions |-> [v1 |-> Version("bash", "echo.1"),
                       v2 |-> Version("bash", "echo.2")]],
        [name |-> "lost", production_version_name |-> "v9",
         versions |-> [v1 |-> Version("bash", "lost.1")]],
        [name |-> "nofile", production_version_name |-> "v1",
         versions |-> [v1 |-> Version("python", "nofile.1")]],
        [name |-> "sum", production_version_name |-> "v1",
         versions |-> [v1 |-> Version("python", "sum.1")]] >>,
   files |-> {"/tools/echo-v1.sh", "/tools/echo-v2.sh", "/tools/sum-v1.py",
              "/tools/lost-v1.sh"}]

\* the folder after "sum" was removed and "echo" went to production with v2
FolderV2 ==
  [manifest |->
     << [name |-> "echo", production_version_name |-> "v2",
         versions |-> [v1 |-> Version("bash", "echo.1"),
                       v2 |-> Version("bash", "echo.2")]] >>,
   files |-> {"/tools/echo-v1.sh", "/tools/echo-v2.sh"}]

\* ---- loadToolsFromFolder ----
\* the body of the loop over tools.json: an entry without its production
\* version or without its script file is skipped
LoadEntry(map, toolData, files) ==
  LET productionVersionName == toolData.production_version_name
  IN IF productionVersionName \notin DOMAIN toolData.versions
       THEN map
       ELSE LET productionVersion == toolData.versions[productionVersionName]
                scriptPath == ScriptPath(toolData.name, productionVersionName,
                                         productionVersion.script_type)
                tool == Tool(toolData.name,
                             IF productionVersion.script_type = ""
                               THEN "bash" ELSE productionVersion.script_type,
                             "", scriptPath, productionVersionName,
                             productionVersion.input_schema)
                key == Lower(toolData.name)
            IN IF scriptPath \notin files
                 THEN map
                 ELSE [n \in DOMAIN map \cup {key} |->
                         IF n = key THEN tool ELSE map[n]]

RECURSIVE LoadEntries(_, _, _)
LoadEntries(map, toolsData, files) ==
  IF toolsData = <<>>
    THEN map
    ELSE LoadEntries(LoadEntry(map, Head(toolsData), files), Tail(toolsData), files)

\* the folder's tools are written into the map that is there
LoadToolsFromFolder(map, folder) ==
  LoadEntries(map, folder.manifest, folder.files)

ToolsOf(map) == {map[n] : n \in DOMAIN map}

\* what a load of the folder into an empty map gives
LocalCatalogV1 == ToolsOf(LoadToolsFromFolder(<<>>, FolderV1))

LocalCatalogV2 == ToolsOf(LoadToolsFromFolder(<<>>, FolderV2))

\* ---- the registry API ----
\* what /api/get-tools returns: every tool carries its source inline; "empty"
\* came without source and "gem" needs a runtime the SDK does not know
RemoteCatalogV1 ==
  { Tool("hello", "bash", "echo hi", "", "v1", "hello.1"),
    Tool("calc", "python", "print(1)", "", "v1", "calc.1"),
    Tool("empty", "python", "", "", "v1", "empty.1"),
    Tool("gem", "ruby", "puts 1", "", "v1", "gem.1") }

\* the answer after "calc" got a new version, "fresh" was added and "empty" and
\* "gem" were withdrawn
RemoteCatalogV2 ==
  { Tool("hello", "bash", "echo hi", "", "v1", "hello.1"),
    Tool("calc", "python", "print(2)", "", "v2", "calc.2"),
    Tool("fresh", "bash", "echo new", "", "v1", "fresh.1") }

\* what a load can find: the folder in local mode, the API's answer otherwise
Catalogs(local) ==
  IF local THEN {FolderV1, FolderV2}
           ELSE {RemoteCatalogV1, RemoteCatalogV2}

FirstCatalog(local) == IF local THEN FolderV1 ELSE RemoteCatalogV1

\* the tools an executor may have been created for
ToolSet(local) ==
  IF local THEN LocalCatalogV1 \cup LocalCatalogV2
           ELSE RemoteCatalogV1 \cup RemoteCatalogV2

\* ---- fetchTools ----
ToolsMapOf(catalog) ==
  [n \in {Lower(t.name) : t \in catalog} |->
     CHOOSE t \in catalog : Lower(t.name) = n]

\* the fetched tools are a new map
FetchTools(map, catalog) == ToolsMapOf(catalog)

\* the load of initialize() and refreshTools()
LoadTools(local, map, catalog) ==
  IF local THEN LoadToolsFromFolder(map, catalog) ELSE FetchTools(map, catalog)

\* ---- getToolsByNames ----
\* a ToolNameParam: a name, with a version or without ("")
Selector(name, version) == [name |-> name, version |-> version]

\* toolsData.find(t => t.name.toLowerCase() === toolName.toLowerCase())
FindEntry(toolsData, toolName) ==
  LET found == SelectSeq(toolsData, LAMBDA t : Lower(t.name) = Lower(toolName))
  IN IF found = <<>> THEN << >> ELSE << Head(found) >>

\* fs.existsSync of the script of a tool: the scripts of the folder are named in
\* lower case, and a file system that folds case finds them under any spelling
ScriptExists(toolName, versionName, kind, files, folds) ==
  ScriptPath(IF folds THEN Lower(toolName) ELSE toolName, versionName, kind)
    \in files

\* the body of the loop of getLocalToolsByNames over the requested names
SelectEntry(selected, nameParam, folder, folds) ==
  LET toolName == nameParam.name
      versionName == nameParam.version
      found == FindEntry(folder.manifest, toolName)
  IN IF found = <<>>
       THEN selected
       ELSE
         LET toolData == found[1]
             versions == toolData.versions
             targetVersionName ==
               IF versionName # "" THEN versionName
                                   ELSE toolData.production_version_name
         IN IF targetVersionName = "" \/ targetVersionName \notin DOMAIN versions
              THEN selected
              ELSE
                LET targetVersion == versions[targetVersionName]
                    scriptPath == ScriptPath(toolName, targetVersionName,
                                             targetVersion.script_type)
                    tool == Tool(toolData.name,
                                 IF targetVersion.script_type = ""
                                   THEN "bash" ELSE targetVersion.script_type,
                                 "", scriptPath, targetVersionName,
                                 targetVersion.input_schema)
                    key == Lower(toolName)
                IN IF ~ScriptExists(toolName, targetVersionName,
                                    targetVersion.script_type, folder.files, folds)
                     THEN selected
                     ELSE [n \in DOMAIN selected \cup {key} |->
                             IF n = key THEN tool ELSE selected[n]]

RECURSIVE SelectEntries(_, _, _, _)
SelectEntries(selected, toolNames, folder, folds) ==
  IF toolNames = <<>>
    THEN selected
    ELSE SelectEntries(SelectEntry(selected, Head(toolNames), folder, folds),
                       Tail(toolNames), folder, folds)

\* getLocalToolsByNames when tools.json could be read
GetLocalToolsByNames(toolNames, folder, folds) ==
  SelectEntries(<<>>, toolNames, folder, folds)

\* what /api/get-individual-tools answers for the requested names: the tools of
\* its catalog with that name (a server may or may not fold the case) and, when
\* one is asked for, that version
ApiIndividualTools(toolNames, catalog, folds) ==
  { t \in catalog :
      \E i \in DOMAIN toolNames :
        /\ IF folds THEN Lower(t.name) = Lower(toolNames[i].name)
                    ELSE t.name = toolNames[i].name
        /\ toolNames[i].version \in {"", t.version_name} }

\* getApiToolsByNames when the API answered: the tools keyed by lower-case name
GetApiToolsByNames(tools) ==
  [n \in {Lower(t.name) : t \in tools} |->
     LET tool == CHOOSE t \in tools : Lower(t.name) = n
     IN Tool(tool.name,
             IF tool.script_type = "" THEN "bash" ELSE tool.script_type,
             tool.script, "", tool.version_name, tool.input_schema)]

\* (mutant) a fallback that looks the requested names up as they were written
CachedToolsExactCase(toolNames, map) ==
  LET keys == {toolNames[i].name : i \in DOMAIN toolNames} \cap DOMAIN map
  IN [n \in keys |-> map[n]]

\* the catch block of getLocalToolsByNames / getApiToolsByNames: the requested
\* tools that are in the adapter's map
CachedTools(toolNames, map) ==
  LET keys == {Lower(toolNames[i].name) : i \in DOMAIN toolNames} \cap DOMAIN map
  IN [n \in keys |-> map[n]]

\* what a child process can write to a stream, as the characters of the text
StdoutTexts == { <<>>, << "o" >>, << " ", "o", "\n" >> }
StderrTexts == { <<>>, << "e" >>, << "\n" >> }
ExitCodes == {0, 1}
\* how spawn() can end: the child runs; spawn throws (E2BIG, EINVAL, ...); or
\* spawn returns a child that emits 'error' on the next tick (ENOENT, EACCES,
\* EAGAIN)
SpawnOutcomes == {"started", "throws", "errorEvent"}

\* ---- checkEnvironment ----
\* what probing the host for a script kind finds
ProbeResult(kind, h) ==
  IF kind = "python"
    THEN IF "python" \in h
           THEN [scriptType |-> kind, valid |-> TRUE, executor |-> "python",
                 error |-> ""]
         ELSE IF "python3" \in h
           THEN [scriptType |-> kind, valid |-> TRUE, executor |-> "python3",
                 error |-> ""]
         ELSE [scriptType |-> kind, valid |-> FALSE, executor |-> "",
               error |-> "Python is not installed or not available in PATH."]
  ELSE IF kind = "bash"
    THEN IF "bash" \in h
           THEN [scriptType |-> kind, valid |-> TRUE, executor |-> "bash",
                 error |-> ""]
           ELSE [scriptType |-> kind, valid |-> FALSE, executor |-> "",
                 error |-> "Bash is not installed or not available in PATH."]
  ELSE [scriptType |-> kind, valid |-> FALSE, executor |-> "",
        error |-> "Unsupported script type: " \o kind]

\* ---- checkAutoRefresh ----
\* (mutant) a threshold of 0 that refreshes at every call
NeedsRefreshAtZero(count, threshold) == count >= threshold

\* (mutant) a threshold that is off by one
NeedsRefreshAfter(count, threshold) == threshold > 0 /\ count > threshold

\* (mutant) a refresh that is due only at the call that reaches the threshold
NeedsRefreshOnce(count, threshold) == threshold > 0 /\ count = threshold

\* whether the call that made the counter `count` refreshes the tools
NeedsRefresh(count, threshold) == threshold > 0 /\ count >= threshold

\* ---- executePythonTool / executeBashTool ----
\* String.prototype.trim, on the characters of a text
IsSpace(ch) == ch \in {" ", "\n"}

RECURSIVE TrimStart(_)
TrimStart(t) ==
  IF t # <<>> /\ IsSpace(Head(t)) THEN TrimStart(Tail(t)) ELSE t

RECURSIVE TrimEnd(_)
TrimEnd(t) ==
  IF t # <<>> /\ IsSpace(t[Len(t)]) THEN TrimEnd(SubSeq(t, 1, Len(t) - 1)) ELSE t

Trim(t) == TrimEnd(TrimStart(t))

\* stdout, then a blank line, then stderr, each trimmed
CombineOutput(stdout, stderr) ==
  LET out == Trim(stdout)
      err == Trim(stderr)
  IN IF err # <<>>
       THEN (IF out # <<>> THEN out \o << "\n\n" >> ELSE out) \o err
       ELSE out

\* (mutant) a close handler that reports a failed process through error
CloseResultByExitCode(code, stdout, stderr) ==
  IF code # 0
    THEN [error |-> CombineOutput(stdout, stderr)]
    ELSE [output |-> CombineOutput(stdout, stderr)]

\* child.on("close"): the result the promise resolves to
CloseResult(code, stdout, stderr) == [output |-> CombineOutput(stdout, stderr)]

KindName(kind) == IF kind = "python" THEN "Python" ELSE "Bash"

\* the catch block of executePythonTool / executeBashTool
ExecutorCaught(tool, message) ==
  [output |-> << "Error executing " \o KindName(tool.script_type) \o " tool "
                 \o tool.name \o ": " \o message >>]

\* the outcome of one segment of an execution: where it stops, the result it
\* resolves to when it stops at "done", and the child it spawned
Launched(end, res, ch) == [end |-> end, result |-> res, child |-> ch]

\* the command line of the child, or the error thrown while choosing the script
PythonCommand(tool, check, exists) ==
  IF tool.script_path # "" /\ exists
    THEN [ok |-> TRUE, command |-> check.executor,
          args |-> << tool.script_path, "<json>" >>, message |-> ""]
  ELSE IF tool.script # ""
    THEN [ok |-> TRUE, command |-> check.executor,
          args |-> << "-c", tool.script, "<json>" >>, message |-> ""]
  ELSE IF tool.script_path # ""
    THEN [ok |-> FALSE, command |-> "", args |-> <<>>,
          message |-> "ENOENT: no such file or directory, open '"
                      \o tool.script_path \o "'"]
  ELSE [ok |-> FALSE, command |-> "", args |-> <<>>,
        message |-> "No script content or valid script path provided"]

BashCommand(tool, exists) ==
  LET scriptToExecute ==
        IF tool.script_path # "" /\ exists THEN tool.script_path ELSE tool.script
  IN [ok |-> TRUE, command |-> "bash",
      args |-> IF tool.script_path # "" THEN << scriptToExecute >>
                                        ELSE << "-c", scriptToExecute >>,
      message |-> ""]

\* from the spawn of the child on
Spawn(tool, cmd, outcome) ==
  LET ch == [command |-> cmd.command, args |-> cmd.args]
  IN CASE outcome = "started" -> Launched("running", NoExecResult, ch)
       [] outcome = "errorEvent" -> Launched("spawnFailed", NoExecResult, ch)
       [] outcome = "throws" ->
            Launched("done", ExecutorCaught(tool, "spawn E2BIG"), NoChild)

\* (mutant) an executor that does not look at the Environment Check
AfterEnvironmentCheckUnchecked(tool, check, exists, outcome) ==
  LET cmd == IF tool.script_type = "python"
               THEN PythonCommand(tool, check, exists)
               ELSE BashCommand(tool, exists)
  IN IF cmd.ok THEN Spawn(tool, cmd, outcome)
               ELSE Launched("done", ExecutorCaught(tool, cmd.message), NoChild)

\* executePythonTool / executeBashTool once checkEnvironment has answered
AfterEnvironmentCheck(tool, check, exists, outcome) ==
  IF ~check.valid
    THEN Launched("done", [output |-> << "Environment error: " \o check.error >>],
                  NoChild)
    ELSE LET cmd == IF tool.script_type = "python"
                      THEN PythonCommand(tool, check, exists)
                      ELSE BashCommand(tool, exists)
         IN IF cmd.ok
              THEN Spawn(tool, cmd, outcome)
              ELSE Launched("done", ExecutorCaught(tool, cmd.message), NoChild)

\* the catch block of the executor of createToolExecutor
ToolExecutorCaught(tool, message) ==
  [error |-> << "Error executing tool " \o tool.name \o ": " \o message >>]

LoadError == "tools.json file not found in /tools"
FetchError == "API request failed with status 500"

\* what a load throws when it fails: without a folder path it always does
LoadFailure(local, loc) ==
  IF local
    THEN IF loc.folderPath = "" THEN "Folder path is not set" ELSE LoadError
    ELSE FetchError

\* what a load can find, given where the adapter looks
Sources(local, loc) ==
  IF local /\ loc.folderPath = "" THEN {} ELSE Catalogs(local)

\* (mutant) an executor that runs a script of any kind as it runs the known ones
DispatchAnyKind(tool, checks, exists, outcome) ==
  IF checks[tool.script_type] = NotChecked
    THEN Launched("probing", NoExecResult, NoChild)
    ELSE AfterEnvironmentCheck(tool, checks[tool.script_type], exists, outcome)

\* the executor of createToolExecutor once checkAutoRefresh has returned
Dispatch(tool, checks, exists, outcome) ==
  IF tool.script_type \notin Kinds
    THEN Launched("done",
                  [error |-> << "Unsupported script type: " \o tool.script_type >>],
                  NoChild)
  ELSE IF checks[tool.script_type] = NotChecked
    THEN Launched("probing", NoExecResult, NoChild)
  ELSE AfterEnvironmentCheck(tool, checks[tool.script_type], exists, outcome)

\* ghost record of one execution: the Environment Check its executor consulted,
\* the fault it met ("none", "spawnThrow", "spawnError", "stdin") and what its
\* child process wrote and exited with
NoClose == [code |-> -1, stdout |-> <<>>, stderr |-> <<>>]
NoTrace == [check |-> NotChecked, fault |-> "none", close |-> NoClose,
            refreshed |-> "no"]

\* the execution stops where segment l of it ended; calls is 1 when the segment
\* began with checkAutoRefresh
Advance(e, tool, l, check, refreshed, calls) ==
  /\ pcE' = [pcE EXCEPT ![e] = l.end]
  /\ execResult' = [execResult EXCEPT ![e] = l.result]
  /\ child' = [child EXCEPT ![e] = l.child]
  /\ trace' = [trace EXCEPT
       !.recordCalls = @ + calls,
       !.spawns = IF l.child # NoChild THEN @ + 1 ELSE @,
       !.exec[e] = [check |-> IF l.end = "probing" THEN NotChecked ELSE check,
                    fault |-> IF l.result = ExecutorCaught(tool, "spawn E2BIG")
                                THEN "spawnThrow" ELSE "none",
                    close |-> NoClose,
                    refreshed |-> refreshed]]

ConsultedCheck(tool, checks) ==
  IF tool.script_type \in Kinds THEN checks[tool.script_type] ELSE NotChecked

\* an object without properties: {}
EmptyObject == <<>>

\* the environment variables an adapter is given
VariableMaps == { EmptyObject, [KEY |-> "1"], [KEY |-> "2"] }

\* the args an executor is called with; the last brings an openv of its own
CallerArgs ==
  { EmptyObject, [text |-> "hi"], [text |-> "hi", openv |-> [KEY |-> "mine"]] }

\* (mutant) an executor that lets the args of the caller overwrite openv
EnrichedArgsCallerLast(args, variables) ==
  [k \in DOMAIN args \cup {"openv"} |->
     IF k \in DOMAIN args THEN args[k] ELSE variables]

\* const enrichedArgs = { ...args, openv: this.environmentVariables }
EnrichedArgs(args, variables) ==
  [k \in DOMAIN args \cup {"openv"} |->
     IF k = "openv" THEN variables ELSE args[k]]

\* JSON.stringify(enrichedArgs), as the child ch gets it on its command line or
\* its stdin: the object the script parses
Handed(ch, args, variables) ==
  IF ch = NoChild THEN EmptyObject ELSE EnrichedArgs(args, variables)

\* setEnvironmentVariables(variables)
SetEnvironmentVariables ==
  /\ \E variables \in VariableMaps \ {environmentVariables} :
       environmentVariables' = variables
  /\ UNCHANGED <<execArgs, handed>>
  /\ UNCHANGED <<localMode, toolsMap, toolCallCount, autoRefreshCount,
                 environmentChecks, host, pcE, execTool, execResult, child,
                 uncaught, trace, handlerCall>>
  /\ UNCHANGED <<drvVars, registryVars>>

\* execute(args) of the executor created for tool, up to its first await that
\* waits for the outside: a refresh, a probe of the host or the child process
ExecStartWith(e, tool, args) ==
  /\ pcE[e] \in {"idle", "done"}
  /\ trace.recordCalls < MaxExecs
  /\ execTool' = [execTool EXCEPT ![e] = tool]
  /\ toolCallCount' = toolCallCount + 1
  /\ IF NeedsRefresh(toolCallCount', autoRefreshCount)
       THEN /\ pcE' = [pcE EXCEPT ![e] = "refreshing"]
            /\ execResult' = [execResult EXCEPT ![e] = NoExecResult]
            /\ child' = [child EXCEPT ![e] = NoChild]
            /\ trace' = [trace EXCEPT !.recordCalls = @ + 1, !.refreshes = @ + 1,
                                       !.exec[e] = NoTrace]
       ELSE \E exists \in BOOLEAN, outcome \in SpawnOutcomes :
              Advance(e, tool, Dispatch(tool, environmentChecks, exists, outcome),
                      ConsultedCheck(tool, environmentChecks), "no", 1)
  /\ UNCHANGED <<localMode, toolsMap, autoRefreshCount, environmentChecks, host,
                 uncaught>>
  /\ UNCHANGED <<drvVars, registryVars>>
  /\ UNCHANGED environmentVariables
  /\ execArgs' = [execArgs EXCEPT ![e] = args]
  /\ handed' = [handed EXCEPT ![e] = Handed(child'[e], args, environmentVariables)]

\* execute({})
ExecStart(e, tool) == ExecStartWith(e, tool, EmptyObject)

\* refreshTools, awaited by checkAutoRefresh, settles: the load failed and the
\* executor's catch block answers, or the tools are loaded, the counter is reset
\* and the execution goes on
RefreshDone(e) ==
  /\ pcE[e] = "refreshing"
  /\ \/ /\ Advance(e, execTool[e],
                   Launched("done",
                            ToolExecutorCaught(execTool[e],
                              LoadFailure(localMode, locator)),
                            NoChild),
                   NotChecked, "failed", 0)
        /\ UNCHANGED <<toolsMap, toolCallCount>>
     \/ \E catalog \in Sources(localMode, locator), exists \in BOOLEAN,
           outcome \in SpawnOutcomes :
          /\ toolsMap' = LoadTools(localMode, toolsMap, catalog)
          /\ toolCallCount' = 0
          /\ Advance(e, execTool[e],
                     Dispatch(execTool[e], environmentChecks, exists, outcome),
                     ConsultedCheck(execTool[e], environmentChecks), "ok", 0)
  /\ UNCHANGED <<localMode, autoRefreshCount, environmentChecks, host, execTool,
                 uncaught>>
  /\ UNCHANGED <<drvVars, registryVars, handlerCall>>
  /\ UNCHANGED <<environmentVariables, execArgs>>
  /\ handed' = [handed EXCEPT ![e] =
                  Handed(child'[e], execArgs[e], environmentVariables)]

\* the probe of checkEnvironment answers: the result is cached and the executor
\* goes on with it
ProbeDone(e) ==
  /\ pcE[e] = "probing"
  /\ LET kind == execTool[e].script_type
         check == ProbeResult(kind, host)
     IN /\ environmentChecks' = [environmentChecks EXCEPT ![kind] = check]
        /\ \E exists \in BOOLEAN, outcome \in SpawnOutcomes :
             Advance(e, execTool[e],
                     AfterEnvironmentCheck(execTool[e], check, exists, outcome),
                     check, trace.exec[e].refreshed, 0)
  /\ UNCHANGED <<localMode, toolsMap, toolCallCount, autoRefreshCount, host,
                 execTool, uncaught>>
  /\ UNCHANGED <<drvVars, registryVars, handlerCall>>
  /\ UNCHANGED <<environmentVariables, execArgs>>
  /\ handed' = [handed EXCEPT ![e] =
                  Handed(child'[e], execArgs[e], environmentVariables)]

\* child.on("close"): the child process ended
ProcessClose(e) ==
  /\ pcE[e] = "running"
  /\ \E code \in ExitCodes, stdout \in StdoutTexts, stderr \in StderrTexts :
       /\ execResult' = [execResult EXCEPT ![e] = CloseResult(code, stdout, stderr)]
       /\ trace' = [trace EXCEPT !.exec[e].close =
                      [code |-> code, stdout |-> stdout, stderr |-> stderr]]
  /\ pcE' = [pcE EXCEPT ![e] = "done"]
  /\ UNCHANGED <<localMode, toolsMap, toolCallCount, autoRefreshCount,
                 environmentChecks, host, execTool, child, uncaught>>
  /\ UNCHANGED <<drvVars, registryVars, handlerCall, envVars>>

\* the child that could not be started emits 'error': the executors register no
\* listener for it, so it is an uncaught exception and 'close' never comes
SpawnErrorEvent(e) ==
  /\ pcE[e] = "spawnFailed"
  /\ uncaught' = TRUE
  /\ pcE' = [pcE EXCEPT ![e] = "hung"]
  /\ trace' = [trace EXCEPT !.exec[e].fault = "spawnError"]
  /\ UNCHANGED <<localMode, toolsMap, toolCallCount, autoRefreshCount,
                 environmentChecks, host, execTool, execResult, child>>
  /\ UNCHANGED <<drvVars, registryVars, handlerCall, envVars>>

\* the write to the stdin of a bash child fails (the child has gone): the stream
\* emits 'error', which has no listener either
StdinErrorEvent(e) ==
  /\ pcE[e] = "running"
  /\ execTool[e].script_type = "bash"
  /\ trace.exec[e].fault = "none"
  /\ uncaught' = TRUE
  /\ trace' = [trace EXCEPT !.exec[e].fault = "stdin"]
  /\ UNCHANGED <<localMode, toolsMap, toolCallCount, autoRefreshCount,
                 environmentChecks, host, pcE, execTool, execResult, child>>
  /\ UNCHANGED <<drvVars, registryVars, handlerCall, envVars>>

(***************************************************************************)
(* The tool handlers of createOpenAIToolHandler and                        *)
(* createAnthropicToolHandler.                                             *)
(***************************************************************************)
\* ghost record of the last call of the handler in a slot: the tool call it was
\* given, the counter of tool calls and the number of processes spawned that it
\* found, and whether it got to an executor
NoHandlerCall ==
  [via |-> "none", name |-> "", arguments |-> "", executed |-> FALSE, counted |-> 0,
   spawned |-> 0]

\* the argument strings a tool call of the model carries
ArgumentStrings == { "{}", "{\"x\":1}", "{bad" }

\* JSON.parse: the value (written canonically), or the SyntaxError it throws
JSONParse(argsString) ==
  IF argsString = "{bad"
    THEN [ok |-> FALSE, value |-> "",
          error |-> "SyntaxError: Expected property name or '}' in JSON at position 1"]
    ELSE [ok |-> TRUE, value |-> argsString, error |-> ""]

\* (mutant) a handler that looks its tools up in the registry as it is now
HandlerToolsCurrent(local) == ToolsOf(toolsMap)

\* the names of the executors of a handler created for all tools of the adapter
HandlerTools(local) == ToolsOf(LoadTools(local, <<>>, FirstCatalog(local)))

\* the names Object.prototype gives every object literal, executors included
InheritedKeys == {"constructor"}

\* the tool names a model may ask for: those of the tools the registry has at
\* one time or another, and others
ToolUseNames(local) ==
  {t.name : t \in ToolSet(local)} \cup {"ghost"} \cup InheritedKeys

\* (mutant) a handler that hands an unparsable argument string on as it is
HandlerInputUnparsed(via, argsString) ==
  [ok |-> TRUE, value |-> argsString, error |-> ""]

\* the input the handler has for the executor: OpenAI sends a JSON string,
\* Anthropic the object
HandlerInput(via, argsString) ==
  IF via = "openai" THEN JSONParse(argsString)
                    ELSE [ok |-> TRUE, value |-> argsString, error |-> ""]

\* executors[name]: the executor of a tool, a function inherited from
\* Object.prototype, or undefined
HandlerLookup(tools, name) ==
  IF \E t \in tools : t.name = name
    THEN [kind |-> "executor", tool |-> CHOOSE t \in tools : t.name = name]
  ELSE IF name \in InheritedKeys
    THEN [kind |-> "inherited", tool |-> NoTool]
  ELSE [kind |-> "undefined", tool |-> NoTool]

\* what the handler resolves to when it does not get to an executor
HandlerAnswer(lookup, name, input) ==
  IF ~input.ok
    THEN [error |-> << "Failed to parse tool arguments: " \o input.error >>]
  ELSE IF lookup.kind = "inherited"
    \* Object(input): the input itself, which has neither output nor error
    THEN [input |-> input.value]
  ELSE [error |-> << "Tool " \o name \o " not found in available tools" >>]

\* what the handler makes of the result of the executor
HandlerResult(res) ==
  IF "error" \in DOMAIN res
    THEN [error |-> << "Something went wrong with the tool execution. Details: " >>
                    \o res.error]
    ELSE res

\* the handler is called with a tool call of the model: up to the first await
\* of the executor, if it gets to one
HandlerCall(e, via) ==
  \E name \in ToolUseNames(localMode), argsString \in ArgumentStrings :
    LET input == HandlerInput(via, argsString)
        lookup == HandlerLookup(HandlerTools(localMode), name)
        executes == input.ok /\ lookup.kind = "executor"
    IN /\ via = "anthropic" => JSONParse(argsString).ok
       /\ handlerCall' = [handlerCall EXCEPT ![e] =
            [via |-> via, name |-> name, arguments |-> argsString,
             executed |-> executes, counted |-> toolCallCount,
             spawned |-> trace.spawns]]
       /\ IF executes
            THEN ExecStart(e, lookup.tool)
            ELSE /\ pcE[e] \in {"idle", "done"}
                 /\ pcE' = [pcE EXCEPT ![e] = "done"]
                 /\ execTool' = [execTool EXCEPT ![e] = NoTool]
                 /\ execResult' = [execResult EXCEPT ![e] =
                                     HandlerAnswer(lookup, name, input)]
                 /\ child' = [child EXCEPT ![e] = NoChild]
                 /\ trace' = [trace EXCEPT !.exec[e] = NoTrace]
                 /\ UNCHANGED <<localMode, toolsMap, toolCallCount,
                                autoRefreshCount, environmentChecks, host,
                                uncaught>>
                 /\ UNCHANGED <<drvVars, registryVars, envVars>>

\* what the call of the handler in slot e resolved to
HandlerResolved(e) ==
  IF handlerCall[e].executed THEN HandlerResult(execResult[e]) ELSE execResult[e]

(***************************************************************************)
(* BaseToolsAdapter: initialize, refreshTools and getToolsByNames.         *)
(***************************************************************************)
\* registry calls that may be in flight together
Regs == {1, 2}
\* the script kinds an Environment Check can be cached for
CheckedKinds == Kinds \cup {"ruby"}

NoOp == [op |-> "none", names |-> <<>>, kinds |-> {}, force |-> FALSE]
\* what a call returned or threw; alias says that the map it returned is the
\* map of the registry itself
NoReturn == [status |-> "none", value |-> <<>>, alias |-> FALSE]
Returned(value) == [status |-> "returned", value |-> value, alias |-> FALSE]

\* (mutant) a getToolsByNames([]) that hands out the map of the registry
ToolsMapItself(map) == [Returned(map) EXCEPT !.alias = TRUE]

\* return { ...this.toolsMap }
SpreadToolsMap(map) == Returned(map)
\* (mutant) a call that swallows the error of its load
RaisedSwallowed(message) == Returned(<<>>)

\* the call throws the error it caught
Raised(message) == [status |-> "raised", value |-> << message >>, alias |-> FALSE]

\* the names getToolsByNames is asked for
ToolNameParams(local) ==
  IF local
    THEN { <<>>,
           << Selector("echo", "") >>,
           << Selector("Echo", "") >>,
           << Selector("echo", "v2") >>,
           << Selector("echo", ""), Selector("sum", "") >>,
           << Selector("nofile", ""), Selector("ghost", "") >> }
    ELSE { <<>>,
           << Selector("calc", "") >>,
           << Selector("Calc", "") >>,
           << Selector("calc", "v2") >>,
           << Selector("calc", ""), Selector("hello", "") >>,
           << Selector("ghost", "") >> }

\* the state of the registry, as a step of a registry call found it
Registry ==
  [toolsMap |-> toolsMap, toolCallCount |-> toolCallCount,
   environmentChecks |-> environmentChecks, initialized |-> initialized,
   autoRefreshCount |-> autoRefreshCount]

\* ghost record of a step of registry call r: the operation, the event ("call",
\* "noop", "loaded", "loadFailed", "probed", "selected", "selectFailed", "set"), the
\* registry before and after the step, what a load found and what the call
\* returned if the step ended it
RegistryEvent(r, op, ev, found) ==
  [call |-> r, op |-> op.op, names |-> op.names, ev |-> ev, before |-> Registry,
   after |-> Registry', ret |-> retR'[r], found |-> found,
   calls |-> lastR.calls
               + (IF ev \in {"call", "noop", "set", "mutated"} THEN 1 ELSE 0)]

\* if (forceRefresh) this.environmentChecks = {}
Cleared(checks, forceRefresh) ==
  IF forceRefresh THEN [k \in CheckedKinds |-> NotChecked] ELSE checks

\* recheckEnvironment, up to its first probe: the cache is cleared and the kinds
\* to check are those of the loaded tools and the two built-in ones
KindsToCheck(map) == {map[n].script_type : n \in DOMAIN map} \cup Kinds

\* where a call goes on once ensureInitialized() has returned
AfterInitialized(op, map) ==
  IF op.op = "select"
    THEN IF op.names = <<>>
           THEN [pc |-> "idle", ret |-> SpreadToolsMap(map)]
           ELSE [pc |-> "selecting", ret |-> NoReturn]
    ELSE [pc |-> "idle", ret |-> Returned(<<>>)]

\* (mutant) an initialize() that loads whether or not the adapter is initialized
EnsureInitializedAlways(r, op) ==
  /\ pcR[r] = "idle"
  /\ lastR.calls < MaxRegistryCalls
  /\ UNCHANGED <<initialized, skipInitialEnvironmentCheck>>
  /\ UNCHANGED <<localMode, toolsMap, toolCallCount, autoRefreshCount,
                 environmentChecks, host, pcE, execTool, execResult, child,
                 uncaught, trace, handlerCall>>
  /\ UNCHANGED <<drvVars, locator, envVars>>
  /\ opR' = [opR EXCEPT ![r] = op]
  /\ pcR' = [pcR EXCEPT ![r] = "initLoading"]
  /\ retR' = [retR EXCEPT ![r] = NoReturn]
  /\ lastR' = RegistryEvent(r, op, "call", {})

\* initialize(), or ensureInitialized() at the start of getToolsByNames
EnsureInitialized(r, op) ==
  /\ pcR[r] = "idle"
  /\ lastR.calls < MaxRegistryCalls
  /\ UNCHANGED <<initialized, skipInitialEnvironmentCheck>>
  /\ UNCHANGED <<localMode, toolsMap, toolCallCount, autoRefreshCount,
                 environmentChecks, host, pcE, execTool, execResult, child,
                 uncaught, trace, handlerCall>>
  /\ UNCHANGED <<drvVars, locator, envVars>>
  /\ opR' = [opR EXCEPT ![r] = op]
  /\ IF initialized
       THEN /\ pcR' = [pcR EXCEPT ![r] = AfterInitialized(op, toolsMap).pc]
            /\ retR' = [retR EXCEPT ![r] = AfterInitialized(op, toolsMap).ret]
            /\ lastR' = RegistryEvent(r, op, "noop", {})
       ELSE /\ pcR' = [pcR EXCEPT ![r] = "initLoading"]
            /\ retR' = [retR EXCEPT ![r] = NoReturn]
            /\ lastR' = RegistryEvent(r, op, "call", {})

InitializeCall(r) == EnsureInitialized(r, [NoOp EXCEPT !.op = "initialize"])

GetToolsByNamesCall(r) ==
  \E toolNames \in ToolNameParams(localMode) :
    EnsureInitialized(r, [NoOp EXCEPT !.op = "select", !.names = toolNames])

\* the load of initialize() settles: it failed and initialize() throws, or the
\* tools are in the map and the environment is rechecked unless that is skipped
InitLoadSettle(r) ==
  /\ pcR[r] = "initLoading"
  /\ UNCHANGED skipInitialEnvironmentCheck
  /\ UNCHANGED <<localMode, toolCallCount, autoRefreshCount, host, pcE, execTool,
                 execResult, child, uncaught, trace, handlerCall>>
  /\ UNCHANGED <<drvVars, locator, envVars>>
  /\ \/ /\ pcR' = [pcR EXCEPT ![r] = "idle"]
        /\ retR' = [retR EXCEPT ![r] =
                      Raised(LoadFailure(localMode, locator))]
        /\ UNCHANGED <<toolsMap, environmentChecks, initialized, opR>>
        /\ lastR' = RegistryEvent(r, opR[r], "loadFailed", {})
     \/ \E catalog \in Sources(localMode, locator) :
          /\ toolsMap' = LoadTools(localMode, toolsMap, catalog)
          /\ IF skipInitialEnvironmentCheck
               THEN /\ initialized' = TRUE
                    /\ pcR' = [pcR EXCEPT ![r] =
                                 AfterInitialized(opR[r], toolsMap').pc]
                    /\ retR' = [retR EXCEPT ![r] =
                                  AfterInitialized(opR[r], toolsMap').ret]
                    /\ UNCHANGED <<environmentChecks, opR>>
               ELSE /\ environmentChecks' = Cleared(environmentChecks, TRUE)
                    /\ opR' = [opR EXCEPT ![r].kinds = KindsToCheck(toolsMap')]
                    /\ pcR' = [pcR EXCEPT ![r] = "initProbing"]
                    /\ UNCHANGED <<initialized, retR>>
          /\ lastR' = RegistryEvent(r, opR[r], "loaded", catalog)

\* the probes of recheckEnvironment have answered: each kind that is not in the
\* cache by now is cached, and initialize() is through
InitProbeSettle(r) ==
  /\ pcR[r] = "initProbing"
  /\ environmentChecks' =
       [k \in CheckedKinds |->
          IF k \in opR[r].kinds /\ environmentChecks[k] = NotChecked
            THEN ProbeResult(k, host)
            ELSE environmentChecks[k]]
  /\ initialized' = TRUE
  /\ pcR' = [pcR EXCEPT ![r] = AfterInitialized(opR[r], toolsMap).pc]
  /\ retR' = [retR EXCEPT ![r] = AfterInitialized(opR[r], toolsMap).ret]
  /\ UNCHANGED <<opR, skipInitialEnvironmentCheck>>
  /\ UNCHANGED <<localMode, toolsMap, toolCallCount, autoRefreshCount, host, pcE,
                 execTool, execResult, child, uncaught, trace, handlerCall>>
  /\ UNCHANGED <<drvVars, locator, envVars>>
  /\ lastR' = RegistryEvent(r, opR[r], "probed", {})

\* recheckEnvironment(forceRefresh), called by the user of the adapter, up to
\* its first await
RecheckEnvironmentCall(r, forceRefresh) ==
  /\ pcR[r] = "idle"
  /\ lastR.calls < MaxRegistryCalls
  /\ environmentChecks' = Cleared(environmentChecks, forceRefresh)
  /\ opR' = [opR EXCEPT ![r] = [NoOp EXCEPT !.op = "recheckEnvironment",
                                            !.kinds = KindsToCheck(toolsMap),
                                            !.force = forceRefresh]]
  /\ pcR' = [pcR EXCEPT ![r] = "rechecking"]
  /\ retR' = [retR EXCEPT ![r] = NoReturn]
  /\ UNCHANGED <<initialized, skipInitialEnvironmentCheck>>
  /\ UNCHANGED <<localMode, toolsMap, toolCallCount, autoRefreshCount, host, pcE,
                 execTool, execResult, child, uncaught, trace, handlerCall>>
  /\ UNCHANGED <<drvVars, locator, envVars>>
  /\ lastR' = RegistryEvent(r, opR'[r], "call", {})

\* the probes of recheckEnvironment have answered: each kind that is not in the
\* cache by now is cached, and the cache is what the call returns
RecheckEnvironmentSettle(r) ==
  /\ pcR[r] = "rechecking"
  /\ environmentChecks' =
       [k \in CheckedKinds |->
          IF k \in opR[r].kinds /\ environmentChecks[k] = NotChecked
            THEN ProbeResult(k, host)
            ELSE environmentChecks[k]]
  /\ pcR' = [pcR EXCEPT ![r] = "idle"]
  /\ retR' = [retR EXCEPT ![r] = Returned(environmentChecks')]
  /\ UNCHANGED <<opR, initialized, skipInitialEnvironmentCheck>>
  /\ UNCHANGED <<localMode, toolsMap, toolCallCount, autoRefreshCount, host, pcE,
                 execTool, execResult, child, uncaught, trace, handlerCall>>
  /\ UNCHANGED <<drvVars, locator, envVars>>
  /\ lastR' = RegistryEvent(r, opR[r], "rechecked", {})

\* refreshTools(), called by the user of the adapter
RefreshToolsCall(r) ==
  /\ pcR[r] = "idle"
  /\ lastR.calls < MaxRegistryCalls
  /\ opR' = [opR EXCEPT ![r] = [NoOp EXCEPT !.op = "refresh"]]
  /\ pcR' = [pcR EXCEPT ![r] = "refreshing"]
  /\ retR' = [retR EXCEPT ![r] = NoReturn]
  /\ UNCHANGED <<initialized, skipInitialEnvironmentCheck>>
  /\ UNCHANGED <<localMode, toolsMap, toolCallCount, autoRefreshCount,
                 environmentChecks, host, pcE, execTool, execResult, child,
                 uncaught, trace, handlerCall>>
  /\ UNCHANGED <<drvVars, locator, envVars>>
  /\ lastR' = RegistryEvent(r, opR'[r], "call", {})

\* the load of refreshTools() settles: it failed and refreshTools() throws what
\* it caught, or the tools are in the map and the counter is reset
RefreshToolsSettle(r) ==
  /\ pcR[r] = "refreshing"
  /\ pcR' = [pcR EXCEPT ![r] = "idle"]
  /\ UNCHANGED <<initialized, skipInitialEnvironmentCheck, opR>>
  /\ UNCHANGED <<localMode, autoRefreshCount, environmentChecks, host, pcE,
                 execTool, execResult, child, uncaught, trace, handlerCall>>
  /\ UNCHANGED <<drvVars, locator, envVars>>
  /\ \/ /\ retR' = [retR EXCEPT ![r] =
                      Raised(LoadFailure(localMode, locator))]
        /\ UNCHANGED <<toolsMap, toolCallCount>>
        /\ lastR' = RegistryEvent(r, opR[r], "loadFailed", {})
     \/ \E catalog \in Sources(localMode, locator) :
          /\ toolsMap' = LoadTools(localMode, toolsMap, catalog)
          /\ toolCallCount' = 0
          /\ retR' = [retR EXCEPT ![r] = Returned(<<>>)]
          /\ lastR' = RegistryEvent(r, opR[r], "loaded", catalog)

\* getLocalToolsByNames / getApiToolsByNames settle: the requested tools as the
\* folder or the API has them, or, when that failed, as the map has them; the
\* file system of the folder, or the server, may or may not fold the case
GetToolsByNamesSettle(r) ==
  /\ pcR[r] = "selecting"
  /\ pcR' = [pcR EXCEPT ![r] = "idle"]
  /\ UNCHANGED <<initialized, skipInitialEnvironmentCheck, opR>>
  /\ UNCHANGED <<localMode, toolsMap, toolCallCount, autoRefreshCount,
                 environmentChecks, host, pcE, execTool, execResult, child,
                 uncaught, trace, handlerCall>>
  /\ UNCHANGED <<drvVars, locator, envVars>>
  /\ \/ /\ retR' = [retR EXCEPT ![r] =
                      Returned(CachedTools(opR[r].names, toolsMap))]
        /\ lastR' = RegistryEvent(r, opR[r], "selectFailed", {})
     \/ \E catalog \in Sources(localMode, locator), folds \in BOOLEAN :
          /\ retR' = [retR EXCEPT ![r] =
               Returned(IF localMode
                          THEN GetLocalToolsByNames(opR[r].names, catalog, folds)
                          ELSE GetApiToolsByNames(
                                 ApiIndividualTools(opR[r].names, catalog, folds)))]
          /\ lastR' = RegistryEvent(r, opR[r], "selected", catalog)

\* what the caller of getToolsByNames can do to the map it was given: delete
\* an entry, or add one
CallerChangesMap(map) ==
  { [n \in DOMAIN map \ {k} |-> map[n]] : k \in DOMAIN map }
    \cup { [n \in DOMAIN map \cup {"mine"} |->
              IF n = "mine" THEN Tool("mine", "bash", "", "", "", "") ELSE map[n]] }

\* the caller changes the map that getToolsByNames returned to it
ChangeReturned(r) ==
  /\ pcR[r] = "idle"
  /\ opR[r].op = "select"
  /\ retR[r].status = "returned"
  /\ lastR.calls < MaxRegistryCalls
  /\ \E changed \in CallerChangesMap(retR[r].value) :
       /\ retR' = [retR EXCEPT ![r].value = changed]
       /\ toolsMap' = IF retR[r].alias THEN changed ELSE toolsMap
  /\ UNCHANGED <<initialized, skipInitialEnvironmentCheck, opR, pcR>>
  /\ UNCHANGED <<localMode, toolCallCount, autoRefreshCount, environmentChecks,
                 host, pcE, execTool, execResult, child, uncaught, trace,
                 handlerCall>>
  /\ UNCHANGED <<drvVars, locator, envVars>>
  /\ lastR' = RegistryEvent(r, opR[r], "mutated", {})

NoRegistryEvent ==
  [call |-> 0, op |-> "none", names |-> <<>>, ev |-> "none",
   before |-> [toolsMap |-> <<>>, toolCallCount |-> 0,
               environmentChecks |-> [k \in CheckedKinds |-> NotChecked],
               initialized |-> FALSE, autoRefreshCount |-> 0],
   after |-> [toolsMap |-> <<>>, toolCallCount |-> 0,
              environmentChecks |-> [k \in CheckedKinds |-> NotChecked],
              initialized |-> FALSE, autoRefreshCount |-> 0],
   ret |-> NoReturn, found |-> {}, calls |-> 0]

\* an adapter that no execution has used
AdapterRest ==
  /\ toolCallCount = 0
  /\ environmentVariables = EmptyObject
  /\ execArgs = [e \in Execs |-> EmptyObject]
  /\ handed = [e \in Execs |-> EmptyObject]
  /\ pcE = [e \in Execs |-> "idle"]
  /\ execTool = [e \in Execs |-> NoTool]
  /\ execResult = [e \in Execs |-> NoExecResult]
  /\ child = [e \in Execs |-> NoChild]
  /\ handlerCall = [e \in Execs |-> NoHandlerCall]
  /\ uncaught = FALSE
  /\ trace = [recordCalls |-> 0, refreshes |-> 0, spawns |-> 0,
              exec |-> [e \in Execs |-> NoTrace]]

\* the Environment Checks the initialize() of an adapter with these tools caches
InitialChecks(map, skip, h) ==
  [k \in CheckedKinds |->
     IF ~skip /\ k \in KindsToCheck(map) THEN ProbeResult(k, h) ELSE NotChecked]

\* a registry whose initialize() has settled and which no call is using
RegistryRest ==
  /\ initialized = TRUE
  /\ pcR = [r \in Regs |-> "idle"]
  /\ opR = [r \in Regs |-> NoOp]
  /\ retR = [r \in Regs |-> NoReturn]
  /\ lastR = NoRegistryEvent

\* this.apiKey / this.folderPath of an adapter that was constructed with its key
\* or its folder
Located(local) ==
  [status |-> "constructed", apiKey |-> IF local THEN "" ELSE "apik_1",
   folderPath |-> IF local THEN "/tools" ELSE ""]

\* the adapter the conversation driver is given: its tool handler is the
\* driver's collaborator, whose answers are ToolOutcomes
AdapterQuiet ==
  /\ AdapterRest
  /\ locator = Located(FALSE)
  /\ RegistryRest
  /\ localMode = FALSE
  /\ toolsMap = LoadTools(FALSE, <<>>, FirstCatalog(FALSE))
  /\ autoRefreshCount = 0
  /\ host = Commands
  /\ skipInitialEnvironmentCheck = FALSE
  /\ environmentChecks = InitialChecks(toolsMap, FALSE, Commands)

\* the adapter once its constructor has run and initialize() has settled
AdapterInit ==
  /\ AdapterRest
  /\ RegistryRest
  /\ localMode \in BOOLEAN
  /\ locator = Located(localMode)
  /\ toolsMap = LoadTools(localMode, <<>>, FirstCatalog(localMode))
  /\ autoRefreshCount \in 0..MaxThreshold
  /\ host \in SUBSET Commands
  /\ skipInitialEnvironmentCheck \in BOOLEAN
  /\ environmentChecks = InitialChecks(toolsMap, skipInitialEnvironmentCheck, host)

\* the adapter when its constructor returns: initialize() is under way
AdapterConstructed ==
  /\ AdapterRest
  /\ localMode \in BOOLEAN
  /\ locator = Located(localMode)
  /\ toolsMap = <<>>
  /\ autoRefreshCount \in {0, MaxThreshold}
  /\ host \in SUBSET Commands
  /\ skipInitialEnvironmentCheck \in BOOLEAN
  /\ environmentChecks = [k \in CheckedKinds |-> NotChecked]
  /\ initialized = FALSE
  /\ pcR = [r \in Regs |-> IF r = 1 THEN "initLoading" ELSE "idle"]
  /\ opR = [r \in Regs |-> IF r = 1 THEN [NoOp EXCEPT !.op = "initialize"]
                                     ELSE NoOp]
  /\ retR = [r \in Regs |-> NoReturn]
  /\ lastR = [NoRegistryEvent EXCEPT !.call = 1, !.op = "initialize",
                                     !.ev = "call", !.calls = 1]

(***************************************************************************)
(* The constructor and setAutoRefreshCount.                                *)
(***************************************************************************)
\* a first argument that was left out
Undefined == "<undefined>"

\* the first arguments an adapter is constructed with: an API key, a folder,
\* the empty string, nothing
PathOrKeys == {"apik_1", "/tools", "", Undefined}

\* options.folderPath, "" when it is not given
FolderPathOptions == {"", "/tools"}

\* options.autoRefreshCount, given or not
AutoRefreshOptions ==
  { [given |-> FALSE, value |-> 0] }
    \cup { [given |-> TRUE, value |-> n] : n \in {-1, 0, MaxThreshold} }

\* pathOrKey.startsWith("apik_")
StartsWithApik(pathOrKey) == pathOrKey = "apik_1"

\* the fields of an object before the body of the constructor runs
FieldInitializers ==
  /\ AdapterRest
  /\ localMode = FALSE
  /\ toolsMap = <<>>
  /\ initialized = FALSE
  /\ environmentChecks = [k \in CheckedKinds |-> NotChecked]
  /\ autoRefreshCount = DefaultAutoRefreshCount
  /\ skipInitialEnvironmentCheck = FALSE
  /\ locator = [status |-> "new", apiKey |-> "", folderPath |-> ""]
  /\ pcR = [r \in Regs |-> "idle"]
  /\ opR = [r \in Regs |-> NoOp]
  /\ retR = [r \in Regs |-> NoReturn]
  /\ lastR = NoRegistryEvent

\* what the constructor has assigned when it gets to its validation
Assigned(pathOrKey, folderOption, countOption) ==
  LET byKey == StartsWithApik(pathOrKey)
  IN [apiKey |-> IF byKey /\ folderOption = "" THEN pathOrKey ELSE "",
      folderPath |-> IF folderOption # "" THEN folderOption
                     ELSE IF byKey THEN "" ELSE pathOrKey,
      localMode |-> ~byKey \/ folderOption # "",
      autoRefreshCount |-> IF countOption.given THEN countOption.value
                                                ELSE DefaultAutoRefreshCount]

\* what the constructor throws, "" when it does not: the TypeError of calling
\* startsWith on undefined, or the validation of the locator
ConstructorThrows(pathOrKey, fields) ==
  IF pathOrKey = Undefined
    THEN "Cannot read properties of undefined (reading 'startsWith')"
  ELSE IF ~fields.localMode /\ fields.apiKey = ""
    THEN "Either apiKey or folderPath must be provided"
  ELSE ""

\* new BaseToolsAdapter(pathOrKey, options): it throws, or it returns with
\* initialize() under way (call 1), which nobody awaits
Construct ==
  /\ locator.status = "new"
  /\ \E pathOrKey \in PathOrKeys, folderOption \in FolderPathOptions,
        countOption \in AutoRefreshOptions, skip \in BOOLEAN :
       LET fields == Assigned(pathOrKey, folderOption, countOption)
           thrown == ConstructorThrows(pathOrKey, fields)
       IN IF thrown # ""
            THEN /\ locator' = [locator EXCEPT !.status = "threw"]
                 /\ retR' = [retR EXCEPT ![1] = Raised(thrown)]
                 /\ UNCHANGED <<localMode, autoRefreshCount,
                                skipInitialEnvironmentCheck, pcR, opR>>
                 /\ lastR' = [NoRegistryEvent EXCEPT !.call = 1, !.op = "construct",
                                                     !.ev = "threw", !.ret = retR'[1]]
            ELSE /\ locator' = [status |-> "constructed", apiKey |-> fields.apiKey,
                                folderPath |-> fields.folderPath]
                 /\ localMode' = fields.localMode
                 /\ autoRefreshCount' = fields.autoRefreshCount
                 /\ skipInitialEnvironmentCheck' = skip
                 /\ pcR' = [pcR EXCEPT ![1] = "initLoading"]
                 /\ opR' = [opR EXCEPT ![1] = [NoOp EXCEPT !.op = "initialize"]]
                 /\ UNCHANGED retR
                 /\ lastR' = [NoRegistryEvent EXCEPT !.call = 1, !.op = "initialize",
                                                     !.ev = "call", !.calls = 1]
  /\ UNCHANGED <<toolsMap, toolCallCount, environmentChecks, host, pcE, execTool,
                 execResult, child, uncaught, trace, handlerCall, initialized>>
  /\ UNCHANGED <<drvVars, envVars>>

\* the counts setAutoRefreshCount is called with
RefreshCounts == -1..MaxThreshold

\* (mutant) a setter that takes any number
RejectsNoCount(count) == FALSE

\* if (count < 0) throw
RejectsCount(count) == count < 0

\* setAutoRefreshCount(count), a synchronous call
SetAutoRefreshCount(r, count) ==
  /\ locator.status = "constructed"
  /\ pcR[r] = "idle"
  /\ lastR.calls < MaxRegistryCalls
  /\ opR' = [opR EXCEPT ![r] = [NoOp EXCEPT !.op = "setAutoRefreshCount"]]
  /\ IF RejectsCount(count)
       THEN /\ retR' = [retR EXCEPT ![r] =
                         Raised("Auto-refresh count must be a non-negative number")]
            /\ UNCHANGED autoRefreshCount
       ELSE /\ retR' = [retR EXCEPT ![r] = Returned(<<>>)]
            /\ autoRefreshCount' = count
  /\ UNCHANGED <<localMode, toolsMap, toolCallCount, environmentChecks, host, pcE,
                 execTool, execResult, child, uncaught, trace, handlerCall,
                 initialized, skipInitialEnvironmentCheck, locator, pcR>>
  /\ UNCHANGED <<drvVars, envVars>>
  /\ lastR' = RegistryEvent(r, opR'[r], "set", count)

(***************************************************************************)
(* The conversation driver: invoke() and the segments of processResponse.  *)
(***************************************************************************)
UserInputs == { << "hi" >> }

\* what the model client may answer to its k-th request
Replies(k) ==
  { r \in Responses(provider, k) :
      IF HasToolCalls(provider, r) THEN toolBudget > 0 ELSE ~alwaysTools }

\* the text segments of a response, as the model wrote them
TextSegments(p, resp) ==
  IF p = "openai"
    THEN (IF resp.content = Null THEN <<>> ELSE resp.content)
    ELSE JoinText(resp.content)

\* ---- the script of a run ----
\* a step of the script: invoke(text), a response of the model that asks for
\* the one tool id and has no text ("tool"), that asks for no tool and has the
\* text, which is empty when its content is null or "" ("text"), or that is
\* of another form ("other"), an error of the model client, or an answer of
\* the tool handler
ScriptStep(ev, kind, id, text, err, outcome) ==
  [ev |-> ev, kind |-> kind, id |-> id, text |-> text, err |-> err,
   outcome |-> outcome]

NoOutcome == [kind |-> "none", val |-> ""]

InvokeStep(input) == ScriptStep("invoke", "none", "", input, NoError, NoOutcome)

ErrorStep(e) == ScriptStep("error", "none", "", <<>>, e, NoOutcome)

OutcomeStep(outcome) == ScriptStep("outcome", "none", "", <<>>, NoError, outcome)

ReplyStep(p, resp) ==
  LET ids == RequestedIds(p, resp)
      kind == IF HasToolCalls(p, resp)
                THEN IF Len(ids) = 1 /\ TextSegments(p, resp) = <<>>
                       THEN "tool" ELSE "other"
                ELSE "text"
  IN ScriptStep("reply", kind, IF kind = "tool" THEN ids[1] ELSE "",
                IF kind = "text" THEN TextSegments(p, resp) ELSE <<>>,
                NoError, NoOutcome)

\* the response of provider p that a "tool" or "text" step stands for
ScriptedResponse(p, step) ==
  IF p = "openai"
    THEN IF step.kind = "tool"
           THEN [content |-> Null,
                 tool_calls |-> << [id |-> step.id, name |-> ToolName] >>]
           ELSE [content |-> step.text, tool_calls |-> <<>>]
    ELSE IF step.kind = "tool"
           THEN [content |-> << [type |-> "tool_use", id |-> step.id,
                                 name |-> ToolName] >>]
           ELSE [content |-> << [type |-> "text", text |-> step.text] >>]

\* ---- a driver run on a script ----
\* a driver between two steps: its history, the frames of processResponse, the
\* await it is at, the text it returned last, the model requests and the tool
\* calls it made, and whether every step so far found it at the await it
\* settles
NewDriver ==
  [messages |-> <<>>, stack |-> <<>>, pc |-> "idle", text |-> <<>>,
   modelCalls |-> 0, toolRuns |-> <<>>, ok |-> TRUE]

\* as Settle: the segment seg of the invoke() of driver d ended
Settled(p, d, seg) ==
  LET caught == seg.end = "throw"
      final == IF caught THEN CatchAppend(p, seg.messages, seg.err)
                         ELSE seg.messages
      done == seg.end \in {"return", "throw"}
  IN [d EXCEPT !.messages = final,
               !.stack = IF done THEN <<>> ELSE seg.stack,
               !.pc = IF done THEN "idle" ELSE seg.end,
               !.text = IF ~done THEN @
                        ELSE IF caught THEN FormatError(p, seg.err) ELSE seg.ret,
               !.toolRuns = IF seg.end = "awaitTool"
                              THEN Append(@, CurrentCallId(p, seg.stack))
                              ELSE @]

\* the driver of provider p takes one step of a script
DriveStep(p, d, step) ==
  LET asked == [d EXCEPT !.modelCalls = @ + 1]
      stuck == [d EXCEPT !.ok = FALSE]
  IN IF ~d.ok THEN d
     ELSE IF step.ev = "invoke"
       THEN IF d.pc # "idle" THEN stuck
            ELSE [d EXCEPT !.messages = Append(@, UserMessage(step.text)),
                           !.pc = "awaitModel"]
     ELSE IF step.ev = "outcome"
       THEN IF d.pc # "awaitTool" THEN stuck
            ELSE Settled(p, d, AfterTool(p, d.messages, d.stack, step.outcome))
     ELSE IF d.pc \notin {"awaitModel", "awaitCont"} THEN stuck
     ELSE IF step.ev = "error"
       THEN Settled(p, asked, Segment(d.messages, <<>>, "throw", <<>>, step.err))
     ELSE IF d.pc = "awaitModel"
       THEN Settled(p, asked, ProcessResponse(p, d.messages, <<>>,
                                              ScriptedResponse(p, step)))
       ELSE Settled(p, asked, AfterContinuation(p, d.messages, d.stack,
                                                ScriptedResponse(p, step)))

RECURSIVE Drive(_, _, _)
Drive(p, d, steps) ==
  IF steps = <<>> THEN d
  ELSE Drive(p, DriveStep(p, d, Head(steps)), Tail(steps))

\* ghost record of a step: the event, the invoke() it belongs to, what the
\* model client answered ("error", "text", "tools"; "none" for other events),
\* how the segment ended and the history as it was before the step
Event(ev, c, kind, seg) ==
  [ev |-> ev, call |-> c, kind |-> kind, end |-> seg.end, err |-> seg.err,
   prior |-> messages]

\* A segment of invoke() number c ended as seg: the history it leaves, the
\* await it stops at, or the ChatbotResult it returns.  A throw is caught by
\* the catch block of invoke(), which appends the formatted error and returns it.
Settle(c, seg, ev, kind) ==
  LET caught == seg.end = "throw"
      final == IF caught THEN CatchAppend(provider, seg.messages, seg.err)
                         ELSE seg.messages
      done == seg.end \in {"return", "throw"}
  IN /\ messages' = final
     /\ owner' = owner \o [j \in 1..(Len(final) - Len(messages)) |-> c]
     /\ pc' = [pc EXCEPT ![c] = IF done THEN "idle" ELSE seg.end]
     /\ stack' = [stack EXCEPT ![c] = IF done THEN <<>> ELSE seg.stack]
     /\ request' = [request EXCEPT ![c] =
                      IF seg.end = "awaitCont" THEN final ELSE <<>>]
     /\ result' = [result EXCEPT ![c] =
                     IF done
                       THEN [text |-> IF caught THEN FormatError(provider, seg.err)
                                                ELSE seg.ret,
                             messages |-> SpreadMessages(final).items]
                       ELSE @]
     /\ toolRuns' = IF seg.end = "awaitTool"
                      THEN Append(toolRuns, CurrentCallId(provider, seg.stack))
                      ELSE toolRuns
     /\ last' = Event(ev, c, kind, seg)

ReplyKind(r) == IF HasToolCalls(provider, r) THEN "tools" ELSE "text"

\* the model client answered r to invoke() number c
Heard(c, r) ==
  /\ heard' = [heard EXCEPT ![c] = @ \o TextSegments(provider, r)]
  /\ scenario' = Append(scenario, ReplyStep(provider, r))
  /\ toolBudget' = IF HasToolCalls(provider, r) THEN toolBudget - 1 ELSE toolBudget

\* invoke(userInput) up to the first model request
Invoke(c, input) ==
  /\ pc[c] = "idle"
  /\ invokes < MaxInvokes
  /\ messages' = Append(messages, UserMessage(input))
  /\ owner' = Append(owner, c)
  /\ request' = [request EXCEPT ![c] =
                   RequestMessages(provider, system, CurrentMessages(messages'))]
  /\ system' = AfterDelete(provider, system)
  /\ scenario' = Append(scenario, InvokeStep(input))
  /\ pc' = [pc EXCEPT ![c] = "awaitModel"]
  /\ result' = [result EXCEPT ![c] = NoResult]
  /\ invokes' = invokes + 1
  /\ heard' = [heard EXCEPT ![c] = <<>>]
  /\ last' = Event("invoke", c, "none",
                   Segment(messages', <<>>, "awaitModel", <<>>, NoError))
  /\ UNCHANGED <<provider, stack, modelCalls, toolRuns, toolBudget, alwaysTools>>
  /\ UNCHANGED histVars
  /\ UNCHANGED adapterVars

\* the model client settles the first request of invoke() number c
ModelReply(c) ==
  /\ pc[c] = "awaitModel"
  /\ modelCalls' = modelCalls + 1
  /\ \/ \E e \in ModelErrors :
          /\ ~alwaysTools
          /\ Settle(c, Segment(messages, <<>>, "throw", <<>>, e),
                    "modelReply", "error")
          /\ scenario' = Append(scenario, ErrorStep(e))
          /\ UNCHANGED <<toolBudget, heard>>
     \/ \E r \in Replies(modelCalls + 1) :
          /\ Settle(c, ProcessResponse(provider, messages, <<>>, r),
                    "modelReply", ReplyKind(r))
          /\ Heard(c, r)
  /\ UNCHANGED <<provider, invokes, alwaysTools>>
  /\ UNCHANGED histVars
  /\ UNCHANGED system
  /\ UNCHANGED adapterVars

\* the tool handler settles the call invoke() number c waits for
ToolReply(c) ==
  /\ pc[c] = "awaitTool"
  /\ \E outcome \in ToolOutcomes :
       /\ Settle(c, AfterTool(provider, messages, stack[c], outcome),
                 "toolReply", "none")
       /\ scenario' = Append(scenario, OutcomeStep(outcome))
  /\ UNCHANGED <<provider, modelCalls, invokes, toolBudget, alwaysTools, heard>>
  /\ UNCHANGED histVars
  /\ UNCHANGED system
  /\ UNCHANGED adapterVars

\* the model client settles a continuation request of invoke() number c
ContReply(c) ==
  /\ pc[c] = "awaitCont"
  /\ modelCalls' = modelCalls + 1
  /\ \/ \E e \in ModelErrors :
          /\ ~alwaysTools
          /\ Settle(c, Segment(messages, <<>>, "throw", <<>>, e),
                    "contReply", "error")
          /\ scenario' = Append(scenario, ErrorStep(e))
          /\ UNCHANGED <<toolBudget, heard>>
     \/ \E r \in Replies(modelCalls + 1) :
          /\ Settle(c, AfterContinuation(provider, messages, stack[c], r),
                    "contReply", ReplyKind(r))
          /\ Heard(c, r)
  /\ UNCHANGED <<provider, invokes, alwaysTools>>
  /\ UNCHANGED histVars
  /\ UNCHANGED system
  /\ UNCHANGED adapterVars

\* what an array holds now
HeldItems(a) == IF a.alias THEN messages ELSE a.items

\* the entries a caller adds to an array it was given
CallerEntry == [role |-> "user", content |-> << "caller" >>]

\* the ways a caller changes an array it holds: it adds an entry, removes the
\* last one or swaps the ends
CallerChanges(items) ==
  { Append(items, CallerEntry) }
    \cup (IF items = <<>> THEN {} ELSE { SubSeq(items, 1, Len(items) - 1) })
    \cup (IF Len(items) < 2 THEN {}
          ELSE { [j \in DOMAIN items |->
                    IF j = 1 THEN items[Len(items)]
                    ELSE IF j = Len(items) THEN items[1] ELSE items[j]] })

HistoryEvent(ev) ==
  Event(ev, 0, "none", Segment(messages, <<>>, "return", <<>>, NoError))

\* (mutant) a resetConversation() that also gives up the invoke() calls in flight
ResetConversationCancelling ==
  /\ historyOps < MaxHistoryOps
  /\ historyOps' = historyOps + 1
  /\ messages' = Truncate(messages)
  /\ owner' = SubSeq(owner, 1, Len(messages'))
  /\ pc' = [c \in ConcCalls |-> "idle"]
  /\ stack' = [c \in ConcCalls |-> <<>>]
  /\ request' = [c \in ConcCalls |-> <<>>]
  /\ last' = HistoryEvent("reset")
  /\ UNCHANGED <<provider, result, heard, modelCalls, toolRuns, invokes,
                 toolBudget, alwaysTools, held, peer>>
  /\ UNCHANGED <<system, scenario>>
  /\ UNCHANGED adapterVars

\* resetConversation()
ResetConversation ==
  /\ historyOps < MaxHistoryOps
  /\ historyOps' = historyOps + 1
  /\ messages' = Truncate(messages)
  /\ owner' = SubSeq(owner, 1, Len(messages'))
  /\ last' = HistoryEvent("reset")
  /\ UNCHANGED <<provider, pc, stack, request, result, heard, modelCalls, toolRuns,
                 invokes, toolBudget, alwaysTools, held, peer>>
  /\ UNCHANGED <<system, scenario>>
  /\ UNCHANGED adapterVars

\* getConversationHistory(): the caller holds what it returns
GetConversationHistory ==
  /\ historyOps < MaxHistoryOps
  /\ historyOps' = historyOps + 1
  /\ held' = [alias |-> SpreadMessages(messages).alias,
              items |-> SpreadMessages(messages).items,
              from |-> "history", after |-> last.ev]
  /\ last' = HistoryEvent("history")
  /\ UNCHANGED <<provider, messages, owner, pc, stack, request, result, heard,
                 modelCalls, toolRuns, invokes, toolBudget, alwaysTools, peer>>
  /\ UNCHANGED <<system, scenario>>
  /\ UNCHANGED adapterVars

\* the caller keeps the messages field of the ChatbotResult invoke() number c
\* returned
KeepResult(c) ==
  /\ historyOps < MaxHistoryOps
  /\ pc[c] = "idle"
  /\ result[c] # NoResult
  /\ historyOps' = historyOps + 1
  /\ held' = [alias |-> SpreadMessages(result[c].messages).alias,
              items |-> SpreadMessages(result[c].messages).items,
              from |-> "invoke", after |-> last.ev]
  /\ last' = HistoryEvent("keep")
  /\ UNCHANGED <<provider, messages, owner, pc, stack, request, result, heard,
                 modelCalls, toolRuns, invokes, toolBudget, alwaysTools, peer>>
  /\ UNCHANGED <<system, scenario>>
  /\ UNCHANGED adapterVars

\* the caller changes the array it holds
ChangeHeld ==
  /\ historyOps < MaxHistoryOps
  /\ held.from # "none"
  /\ historyOps' = historyOps + 1
  /\ \E changed \in CallerChanges(HeldItems(held)) :
       /\ held' = [held EXCEPT !.items = changed]
       /\ IF held.alias
            THEN /\ messages' = changed
                 /\ owner' = [j \in DOMAIN changed |-> 0]
            ELSE UNCHANGED <<messages, owner>>
  /\ last' = HistoryEvent("change")
  /\ UNCHANGED <<provider, pc, stack, request, result, heard, modelCalls, toolRuns,
                 invokes, toolBudget, alwaysTools, peer>>
  /\ UNCHANGED <<system, scenario>>
  /\ UNCHANGED adapterVars

\* a step of the second driver on its history: its invoke() pushes a message
\* (push), or its resetConversation() empties it
PeerStep(push) ==
  /\ historyOps < MaxHistoryOps
  /\ historyOps' = historyOps + 1
  /\ LET after == IF push THEN Append(HeldItems(peer), UserMessage(<< "peer" >>))
                          ELSE Truncate(HeldItems(peer))
     IN /\ push \/ HeldItems(peer) # <<>>
        /\ peer' = [peer EXCEPT !.items = after]
        /\ IF peer.alias
             THEN /\ messages' = after
                  /\ owner' = [j \in DOMAIN after |-> 0]
             ELSE UNCHANGED <<messages, owner>>
  /\ last' = HistoryEvent(IF push THEN "peerInvoke" ELSE "peerReset")
  /\ UNCHANGED <<provider, pc, stack, request, result, heard, modelCalls, toolRuns,
                 invokes, toolBudget, alwaysTools, held>>
  /\ UNCHANGED <<system, scenario>>
  /\ UNCHANGED adapterVars

DriverRest ==
  /\ provider \in Providers
  /\ messages = <<>>
  /\ owner = <<>>
  /\ pc = [c \in ConcCalls |-> "idle"]
  /\ stack = [c \in ConcCalls |-> <<>>]
  /\ request = [c \in ConcCalls |-> <<>>]
  /\ result = [c \in ConcCalls |-> NoResult]
  /\ heard = [c \in ConcCalls |-> <<>>]
  /\ last = [ev |-> "init", call |-> 0, kind |-> "none", end |-> "return",
             err |-> NoError, prior |-> <<>>]
  /\ modelCalls = 0
  /\ toolRuns = <<>>
  /\ invokes = 0
  /\ held = NoHeld
  /\ peer = NewHistory
  /\ historyOps = 0
  /\ scenario = <<>>

\* a driver that was created without a system prompt
DriverInit ==
  /\ DriverRest
  /\ system = NoSystem

\* the promises the driver awaits settle: the steps the event loop runs
DriverStep(c) == ModelReply(c) \/ ToolReply(c) \/ ContReply(c)

(***************************************************************************)
(* Spec: one caller, who awaits each invoke() before the next.             *)
(***************************************************************************)
Init ==
  /\ DriverInit
  /\ alwaysTools = FALSE
  /\ toolBudget = MaxToolTurns
  /\ AdapterQuiet

SeqInvoke ==
  /\ \A d \in ConcCalls : pc[d] = "idle"
  /\ \E input \in UserInputs : Invoke(1, input)

Next == SeqInvoke \/ ModelReply(1) \/ ToolReply(1) \/ ContReply(1)

Spec == Init /\ [][Next]_vars

(***************************************************************************)
(* SpecSystem: Spec for an OpenAI driver that was created with a system    *)
(* prompt.                                                                 *)
(***************************************************************************)
InitSystem ==
  /\ DriverRest
  /\ provider = "openai"
  /\ system \in SystemPrompts
  /\ alwaysTools = FALSE
  /\ toolBudget = MaxToolTurns
  /\ AdapterQuiet

SpecSystem == InitSystem /\ [][Next]_vars

(***************************************************************************)
(* SpecLive: Spec with a model client of either kind and with the event    *)
(* loop's guarantee that a settled promise resumes its awaiter.            *)
(***************************************************************************)
InitLive ==
  /\ DriverInit
  /\ alwaysTools \in BOOLEAN
  /\ toolBudget = MaxToolTurns
  /\ AdapterQuiet

SpecLive == InitLive /\ [][Next]_vars /\ WF_vars(DriverStep(1))

(***************************************************************************)
(* SpecConc: callers that do not await one invoke() before the next.       *)
(***************************************************************************)
ConcInvoke == \E c \in ConcCalls, input \in UserInputs : Invoke(c, input)

ConcStep == \E c \in ConcCalls : DriverStep(c)

NextConc == ConcInvoke \/ ConcStep

InitConc ==
  /\ DriverInit
  /\ alwaysTools = FALSE
  /\ toolBudget = MaxConcToolTurns
  /\ AdapterQuiet

SpecConc == InitConc /\ [][NextConc]_vars

(***************************************************************************)
(* SpecHistory: a caller who also resets and reads the history, changes    *)
(* the arrays it was returned and uses a second driver of the adapter.     *)
(***************************************************************************)
HistoryOp ==
  \/ ResetConversation
  \/ GetConversationHistory
  \/ KeepResult(1)
  \/ ChangeHeld
  \/ \E push \in BOOLEAN : PeerStep(push)

NextHistory == SeqInvoke \/ DriverStep(1) \/ HistoryOp

InitHistory ==
  /\ DriverInit
  /\ alwaysTools = FALSE
  /\ toolBudget = MaxConcToolTurns
  /\ AdapterQuiet

SpecHistory == InitHistory /\ [][NextHistory]_vars

(***************************************************************************)
(* SpecTools: the executors of one adapter, called one after the other by   *)
(* a caller that awaits each result.                                       *)
(***************************************************************************)
InitTools ==
  /\ DriverInit
  /\ provider = "openai"
  /\ alwaysTools = FALSE
  /\ toolBudget = 0
  /\ AdapterInit

SeqExecute ==
  /\ \A e \in Execs : pcE[e] \in {"idle", "done"}
  /\ \E tool \in ToolSet(localMode) : ExecStart(1, tool)
  /\ handlerCall' = [handlerCall EXCEPT ![1] = NoHandlerCall]

NextTools ==
  \/ SeqExecute
  \/ RefreshDone(1)
  \/ ProbeDone(1)
  \/ ProcessClose(1)
  \/ SpawnErrorEvent(1)
  \/ StdinErrorEvent(1)

SpecTools == InitTools /\ [][NextTools]_vars

(***************************************************************************)
(* SpecParallel: tool executions that overlap, as when a model asks for    *)
(* several tools and the caller runs the handler for them at once, on a    *)
(* host without interpreters and an adapter that refreshes automatically.  *)
(***************************************************************************)
InitParallel ==
  /\ InitTools
  /\ host = {}
  /\ autoRefreshCount \in 1..MaxThreshold

ParExecute ==
  /\ \E e \in Execs, tool \in ToolSet(localMode) : ExecStart(e, tool)
  /\ UNCHANGED handlerCall

ParRefreshDone == \E e \in Execs : RefreshDone(e)

ParProbeDone == \E e \in Execs : ProbeDone(e)

NextParallel == ParExecute \/ ParRefreshDone \/ ParProbeDone

SpecParallel == InitParallel /\ [][NextParallel]_vars

(***************************************************************************)
(* SpecVariables: SpecTools on a host with the interpreters, remote tools  *)
(* and a caller that passes args and sets the environment variables of the *)
(* adapter at any time.                                                    *)
(***************************************************************************)
InitVariables ==
  /\ InitTools
  /\ ~localMode
  /\ skipInitialEnvironmentCheck
  /\ host = Commands
  /\ autoRefreshCount \in {0, 1}

ArgsExecute ==
  /\ \A e \in Execs : pcE[e] \in {"idle", "done"}
  /\ \E tool \in ToolSet(localMode), args \in CallerArgs :
       ExecStartWith(1, tool, args)
  /\ handlerCall' = [handlerCall EXCEPT ![1] = NoHandlerCall]

NextVariables ==
  \/ ArgsExecute
  \/ SetEnvironmentVariables
  \/ RefreshDone(1)
  \/ ProbeDone(1)
  \/ ProcessClose(1)

SpecVariables == InitVariables /\ [][NextVariables]_vars

(***************************************************************************)
(* SpecHandler: the tool handlers of one adapter, called with one tool     *)
(* call of the model after the other.                                      *)
(***************************************************************************)
InitHandler ==
  /\ InitTools
  /\ host = Commands
  /\ autoRefreshCount \in {0, MaxThreshold}

SeqHandle ==
  /\ \A e \in Execs : pcE[e] \in {"idle", "done"}
  /\ \E via \in Providers : HandlerCall(1, via)

NextHandler ==
  \/ SeqHandle
  \/ RefreshDone(1)
  \/ ProbeDone(1)
  \/ ProcessClose(1)
  \/ SpawnErrorEvent(1)
  \/ StdinErrorEvent(1)

SpecHandler == InitHandler /\ [][NextHandler]_vars

(***************************************************************************)
(* SpecRegistry: an adapter from the return of its constructor on; its     *)
(* user calls initialize, refreshTools and getToolsByNames, without        *)
(* waiting for one call before the next, and runs tools once the adapter   *)
(* is initialized.  The host has no runtime for the tools, so that every   *)
(* execution ends at its Environment Check.                                *)
(***************************************************************************)
InitRegistry ==
  /\ DriverInit
  /\ provider = "openai"
  /\ alwaysTools = FALSE
  /\ toolBudget = 0
  /\ AdapterConstructed
  /\ host = {}

\* the user of the adapter awaits each of its calls; the initialize() of the
\* constructor (call 1) may still be under way
RegistryCall ==
  /\ pcE[1] \in {"idle", "done"}
  /\ \/ InitializeCall(2)
     \/ RefreshToolsCall(2)
     \/ GetToolsByNamesCall(2)
     \/ \E forceRefresh \in BOOLEAN : RecheckEnvironmentCall(2, forceRefresh)
     \/ ChangeReturned(2)

RegistrySettle ==
  \E r \in Regs :
    \/ InitLoadSettle(r)
    \/ InitProbeSettle(r)
    \/ RefreshToolsSettle(r)
    \/ GetToolsByNamesSettle(r)
    \/ RecheckEnvironmentSettle(r)

\* an executor exists once a handler was created, which waits for initialize()
RegistryExecute ==
  /\ initialized
  /\ \A r \in Regs : pcR[r] = "idle"
  /\ \A e \in Execs : pcE[e] \in {"idle", "done"}
  /\ \E tool \in HandlerTools(localMode) :
       tool.script_type = "bash" /\ ExecStart(1, tool)
  /\ handlerCall' = [handlerCall EXCEPT ![1] = NoHandlerCall]

NextRegistry ==
  \/ RegistryCall
  \/ RegistrySettle
  \/ RegistryExecute
  \/ RefreshDone(1)
  \/ ProbeDone(1)

SpecRegistry == InitRegistry /\ [][NextRegistry]_vars

(***************************************************************************)
(* SpecSettings: an adapter from its construction on, with a user who sets *)
(* the auto-refresh count between the executions of its tools.             *)
(***************************************************************************)
InitSettings ==
  /\ DriverInit
  /\ provider = "openai"
  /\ alwaysTools = FALSE
  /\ toolBudget = 0
  /\ FieldInitializers
  /\ host = {}

SettingsCall ==
  /\ pcE[1] \in {"idle", "done"}
  /\ \E count \in RefreshCounts : SetAutoRefreshCount(2, count)

SettingsSettle == InitLoadSettle(1) \/ InitProbeSettle(1)

NextSettings ==
  \/ Construct
  \/ SettingsCall
  \/ SettingsSettle
  \/ RegistryExecute
  \/ RefreshDone(1)
  \/ ProbeDone(1)

SpecSettings == InitSettings /\ [][NextSettings]_vars


(***************************************************************************)
(* C1.  When a model response holds N >= 2 tool-call requests, the         *)
(* continuation request carries, after the assistant turn of that          *)
(* response, exactly one tool result per request, in request order.        *)
(***************************************************************************)
C1_ResultsBeforeContinuation ==
  \A c \in ConcCalls :
    pc[c] = "awaitCont" =>
      LET ids == RequestedIds(provider, Top(stack[c]).resp)
          n == Len(ids)
          r == request[c]
      IN n >= 2 =>
           /\ Len(r) > n
           /\ IsToolCallTurn(r[Len(r) - n])
           /\ TurnIds(r[Len(r) - n]) = ids
           /\ \A j \in 1..n :
                /\ IsToolResult(r[Len(r) - n + j])
                /\ ResultId(r[Len(r) - n + j]) = ids[j]
                /\ Cardinality(ResultsFor(r, ids[j])) = 1

(***************************************************************************)
(* C2.  A failure of the model client, on the first request or on a        *)
(* continuation, appends exactly one assistant message holding the         *)
(* formatted error, is returned as the result text with a copy of the      *)
(* history, and leaves the driver idle and ready for the next invoke().    *)
(***************************************************************************)
C2_ClientFailureIsReturned ==
  last.kind = "error" =>
    LET c == last.call
        errorMessage == FormatError(provider, last.err)
    IN /\ messages = Append(last.prior, AssistantText(errorMessage))
       /\ result[c] = [text |-> errorMessage, messages |-> messages]
       /\ pc[c] = "idle" /\ stack[c] = <<>> /\ request[c] = <<>>
       /\ invokes < MaxInvokes => ENABLED SeqInvoke

\* the second invoke() has got as far as a continuation, which failed, after
\* the first invoke() failed on its first request
C2_Witness ==
  /\ last.kind = "error" /\ last.ev = "contReply"
  /\ invokes = 2
  /\ \E e \in ModelErrors : messages[2] = AssistantText(FormatError(provider, e))

(***************************************************************************)
(* C3.  Once invoke() has returned, every tool-calling response is in the  *)
(* history exactly once, every call it requests has exactly one tool       *)
(* result, and every tool result answers a call requested before it.       *)
(***************************************************************************)
C3_OneResultPerRequest ==
  (\A c \in ConcCalls : pc[c] = "idle") =>
    /\ \A i \in DOMAIN messages :
         IsToolCallTurn(messages[i]) =>
           /\ \A j \in DOMAIN messages :
                (j # i /\ IsToolCallTurn(messages[j]))
                  => TurnIds(messages[j]) # TurnIds(messages[i])
           /\ \A id \in Range(TurnIds(messages[i])) :
                Cardinality(ResultsFor(messages, id)) = 1
    /\ \A j \in DOMAIN messages :
         IsToolResult(messages[j]) =>
           \E i \in 1..(j - 1) :
             /\ IsToolCallTurn(messages[i])
             /\ ResultId(messages[j]) \in Range(TurnIds(messages[i]))

(***************************************************************************)
(* C4.  The text invoke() returns is made of the text of the final         *)
(* pure-text response and the text segments of every tool-calling turn of  *)
(* that call, the returned messages equal the history, and a pure-text     *)
(* continuation ends the call.                                             *)
(***************************************************************************)
C4_ReturnedText ==
  /\ (last.ev # "init" /\ last.end = "return") =>
       /\ SameSegments(result[last.call].text, heard[last.call])
       /\ result[last.call].messages = messages
  /\ (last.ev = "contReply" /\ last.kind = "text") => pc[last.call] = "idle"

(***************************************************************************)
(* C5.  Nested tool use has no depth bound.  With a model client that      *)
(* stops asking for tools, every invoke() returns; with one that asks for  *)
(* a tool on every turn, invoke() never returns, every answer of the model *)
(* lengthens the history, and the driver goes on for as long as the model  *)
(* client answers.                                                         *)
(***************************************************************************)
C5_UnboundedRecursion ==
  /\ (~alwaysTools /\ pc[1] # "idle") ~> (pc[1] = "idle")
  /\ [][(alwaysTools /\ pc[1] # "idle") =>
          /\ pc'[1] # "idle"
          /\ Len(messages') >= Len(messages)
          /\ modelCalls' > modelCalls => Len(messages') > Len(messages)]_vars
  /\ [](alwaysTools /\ pc[1] # "idle" /\ toolBudget > 0 => ENABLED DriverStep(1))

\* the model client has asked for tools MaxToolTurns times in one invoke()
C5_Witness ==
  /\ alwaysTools /\ toolBudget = 0 /\ pc[1] = "awaitCont"
  /\ Len(stack[1]) = MaxToolTurns

(***************************************************************************)
(* C6.  With an auto-refresh threshold n >= 1 and the counter starting at  *)
(* 0, n sequential tool executions (each calling checkAutoRefresh once)    *)
(* trigger exactly one refreshTools and leave the counter at 0, while      *)
(* n - 1 executions trigger none.  This is the claim as stated; it fails   *)
(* when the triggered refresh fails, which leaves the counter at n.        *)
(***************************************************************************)
C6_ThresholdRefreshResets ==
  LET n == autoRefreshCount
  IN n >= 1 =>
       /\ trace.recordCalls = n - 1 => trace.refreshes = 0
       /\ trace.recordCalls = n => trace.refreshes = 1
       /\ (trace.recordCalls = n /\ pcE[1] # "refreshing") => toolCallCount = 0

(***************************************************************************)
(* C6, amended.  With an auto-refresh threshold n >= 1 and the counter     *)
(* starting at 0, n sequential tool executions trigger exactly one         *)
(* refreshTools, and n - 1 executions trigger none and leave the counter   *)
(* at n - 1; once the triggered refresh has settled the counter is 0 if    *)
(* its load succeeded and n if it failed.                                  *)
(***************************************************************************)
C6_ThresholdRefreshResetsOnSuccess ==
  LET n == autoRefreshCount
  IN n >= 1 =>
       /\ trace.recordCalls = n - 1 =>
            (trace.refreshes = 0 /\ toolCallCount = n - 1)
       /\ trace.recordCalls = n => trace.refreshes = 1
       /\ (trace.recordCalls = n /\ pcE[1] = "refreshing") => toolCallCount = n
       /\ (trace.recordCalls = n /\ pcE[1] # "refreshing") =>
            /\ trace.exec[1].refreshed \in {"ok", "failed"}
            /\ trace.exec[1].refreshed = "ok" => toolCallCount = 0
            /\ trace.exec[1].refreshed = "failed" => toolCallCount = n

C6_Witness ==
  /\ autoRefreshCount = MaxThreshold
  /\ trace.recordCalls = autoRefreshCount
  /\ trace.refreshes = 1
  /\ trace.exec[1].refreshed = "ok"
  /\ toolCallCount = 0
  /\ pcE[1] = "done"

(***************************************************************************)
(* C7.  An execution never throws and always resolves: a fault launching   *)
(* the child process or writing to its stdin is caught and the execution   *)
(* resolves to {output: <message>}, for bash and python tools alike.       *)
(* This is the claim as stated; it fails for the faults that reach the     *)
(* program as an 'error' event, for which the executors have no listener.  *)
(***************************************************************************)
C7_FaultsAreSurfaced ==
  /\ ~uncaught
  /\ \A e \in Execs :
       /\ pcE[e] # "hung"
       /\ trace.exec[e].fault # "none" =>
            /\ pcE[e] = "done"
            /\ DOMAIN execResult[e] = {"output"}
            /\ execResult[e].output # <<>>

(***************************************************************************)
(* C8.  When the child process of an execution exits with a non-zero code, *)
(* the execution resolves to a result whose output field holds the         *)
(* captured text (trimmed stdout, then trimmed stderr) and which has no    *)
(* error field: the same result as for exit code 0.                        *)
(***************************************************************************)
C8_NonZeroExitIsOutput ==
  \A e \in Execs :
    LET c == trace.exec[e].close
    IN (c # NoClose /\ c.code # 0) =>
         /\ pcE[e] = "done"
         /\ DOMAIN execResult[e] = {"output"}
         /\ execResult[e].output = CombineOutput(c.stdout, c.stderr)
         /\ (Trim(c.stdout) # <<>> \/ Trim(c.stderr) # <<>>) =>
              execResult[e].output # <<>>
         /\ execResult[e] = CloseResult(0, c.stdout, c.stderr)

C8_Witness ==
  /\ pcE[1] = "done"
  /\ trace.exec[1].close.code = 1
  /\ trace.exec[1].close.stdout = << " ", "o", "\n" >>
  /\ trace.exec[1].close.stderr = << "e" >>
  /\ execResult[1] = [output |-> << "o", "\n\n", "e" >>]

C10_RequestCarriesUnfinishedTurn ==
  \A c, d \in ConcCalls :
    (c # d /\ pc[c] = "awaitTool" /\ last.ev = "invoke" /\ last.call = d) =>
      \E i \in UnfinishedTurns(request[d]) : owner[i] = c

\* a message of one call sits between the other call's tool-call turn and a
\* tool result of that turn
C10_Witness ==
  \E i, j, k \in DOMAIN messages :
    /\ i < j /\ j < k
    /\ IsToolCallTurn(messages[i])
    /\ owner[j] # owner[i]
    /\ owner[k] = owner[i]
    /\ IsToolResult(messages[k])
    /\ ResultId(messages[k]) \in Range(TurnIds(messages[i]))


(***************************************************************************)
(* C11.  A refreshTools() whose load succeeds leaves as the tool map       *)
(* exactly the freshly loaded catalog - a tool that the catalog no longer  *)
(* has is gone from the map - and the counter at 0, in local and in remote *)
(* mode.  This is the claim as stated; it fails in local mode, where the   *)
(* load writes into the map that is there.                                 *)
(***************************************************************************)
C11_RefreshReplacesMap ==
  (lastR.op = "refresh" /\ lastR.ev = "loaded") =>
    /\ lastR.after.toolsMap = LoadTools(localMode, <<>>, lastR.found)
    /\ lastR.after.toolCallCount = 0

(***************************************************************************)
(* C12.  In local mode a failed load (folder or tools.json missing or      *)
(* unparsable) is silent: the call of initialize() or refreshTools() does  *)
(* not throw to its caller and the tool map is as it was before.  This is  *)
(* the claim as stated; it fails because both calls throw what the load    *)
(* threw.                                                                  *)
(***************************************************************************)
C12_LocalLoadFailureIsSilent ==
  (localMode /\ lastR.ev = "loadFailed") =>
    /\ lastR.ret.status = "returned"
    /\ lastR.after.toolsMap = lastR.before.toolsMap

(***************************************************************************)
(* C13.  In remote mode a failed fetch of the catalog is thrown to the     *)
(* caller of initialize() / refreshTools() and leaves the tool map and the *)
(* counter as they were; a failed initialize() does not mark the adapter   *)
(* initialized, and initialize() is a no-op only on an initialized         *)
(* adapter, so that a later initialize() loads again.                      *)
(***************************************************************************)
C13_RemoteLoadFailurePropagates ==
  /\ (~localMode /\ lastR.ev = "loadFailed") =>
       /\ lastR.ret.status = "raised"
       /\ lastR.ret.value = << FetchError >>
       /\ lastR.after.toolsMap = lastR.before.toolsMap
       /\ lastR.after.toolCallCount = lastR.before.toolCallCount
       /\ lastR.after.initialized = lastR.before.initialized
  /\ (~localMode /\ lastR.ev = "noop") => lastR.before.initialized
  /\ (~localMode /\ ~initialized /\ lastR.calls < MaxRegistryCalls
        /\ pcR[2] = "idle" /\ pcE[1] \in {"idle", "done"}) =>
       ENABLED (InitializeCall(2) /\ pcR'[2] = "initLoading")

C13_Witness ==
  /\ ~localMode
  /\ lastR.ev = "loadFailed"
  /\ lastR.op = "refresh"
  /\ lastR.before.toolCallCount > 0
  /\ retR[1].status = "raised"
  /\ initialized

(***************************************************************************)
(* C14.  A selective lookup (getToolsByNames with names) whose read of the *)
(* folder or request to the API failed does not throw: it returns, and for *)
(* every requested name whose lower-cased form is a key of the tool map    *)
(* the returned map has the cached tool under that lower-cased key.        *)
(***************************************************************************)
C14_FailedLookupFallsBack ==
  lastR.ev = "selectFailed" =>
    /\ lastR.ret.status = "returned"
    /\ \A i \in DOMAIN lastR.names :
         LET key == Lower(lastR.names[i].name)
         IN key \in DOMAIN lastR.before.toolsMap =>
              /\ key \in DOMAIN lastR.ret.value
              /\ lastR.ret.value[key] = lastR.before.toolsMap[key]

C14_Witness ==
  /\ lastR.ev = "selectFailed"
  /\ \E i \in DOMAIN lastR.names :
       /\ lastR.names[i].name # Lower(lastR.names[i].name)
       /\ Lower(lastR.names[i].name) \in DOMAIN lastR.ret.value

(***************************************************************************)
(* C15.  getToolsByNames ignores the case of the requested names: asking   *)
(* for "Foo" returns what asking for "foo" returns, the same tool (name,   *)
(* version, script location) under the same lower-cased key.  Stated for   *)
(* the local folder, where the adapter itself does the lookup; it fails    *)
(* because the script is looked for under the name as it was asked for.    *)
(***************************************************************************)
LowerCased(toolNames) ==
  [i \in DOMAIN toolNames |-> Selector(Lower(toolNames[i].name), toolNames[i].version)]

C15_LookupIgnoresCase ==
  (localMode /\ lastR.ev = "selected") =>
    lastR.ret.value = GetLocalToolsByNames(LowerCased(lastR.names), lastR.found, FALSE)

(***************************************************************************)
(* C16.  initialize() is idempotent: a call of initialize(), or of         *)
(* ensureInitialized() at the start of getToolsByNames, on an adapter that *)
(* is initialized starts no load and no probe and leaves the tool map, the *)
(* counter and the cache of Environment Checks as they were.               *)
(***************************************************************************)
C16_InitializeIsIdempotent ==
  (lastR.before.initialized /\ lastR.op \in {"initialize", "select"}
     /\ lastR.ev \in {"call", "noop"}) =>
    /\ lastR.ev = "noop"
    /\ lastR.after = lastR.before
    /\ pcR[lastR.call] \notin {"initLoading", "initProbing"}
    /\ lastR.op = "initialize" => lastR.ret = Returned(<<>>)

C16_Witness ==
  /\ lastR.ev = "noop"
  /\ lastR.op = "initialize"
  /\ lastR.before.initialized
  /\ lastR.before.toolCallCount > 0
  /\ lastR.before.toolsMap # <<>>
  /\ \E k \in CheckedKinds : lastR.before.environmentChecks[k] # NotChecked

(***************************************************************************)
(* C17.  A load of the local folder yields exactly the tools of tools.json *)
(* whose production version exists and whose script file                   *)
(* <name>-<production version>.<ext> exists, each with the name, the input *)
(* schema and the script kind of that production version; the other        *)
(* entries are skipped and the load does not fail.  This is the claim as   *)
(* stated; it fails for a load into a map that already holds tools.        *)
(***************************************************************************)
EligibleEntries(folder) ==
  { i \in DOMAIN folder.manifest :
      LET toolData == folder.manifest[i]
          production == toolData.production_version_name
      IN /\ production \in DOMAIN toolData.versions
         /\ ScriptPath(toolData.name, production,
                       toolData.versions[production].script_type) \in folder.files }

C17_LocalLoadYieldsManifestTools ==
  (localMode /\ lastR.ev = "loaded") =>
    LET folder == lastR.found
        map == lastR.after.toolsMap
    IN /\ DOMAIN map = { Lower(folder.manifest[i].name) : i \in EligibleEntries(folder) }
       /\ \A i \in EligibleEntries(folder) :
            LET toolData == folder.manifest[i]
                tool == map[Lower(toolData.name)]
                production == toolData.versions[toolData.production_version_name]
            IN /\ tool.name = toolData.name
               /\ tool.input_schema = production.input_schema
               /\ tool.script_type = production.script_type

(***************************************************************************)
(* C18.  A tool call whose name is not the name of one of the handler's    *)
(* tools (and whose arguments parse) is answered with                      *)
(* {error: "Tool <name> not found in available tools"}: no executor runs,  *)
(* no process is spawned and the call is not counted.  This is the claim   *)
(* as stated; it fails for a name that every object literal inherits.      *)
(***************************************************************************)
C18_UnknownToolIsNotFound ==
  \A e \in Execs :
    (/\ handlerCall[e].via # "none"
     /\ HandlerInput(handlerCall[e].via, handlerCall[e].arguments).ok
     /\ handlerCall[e].name \notin {t.name : t \in HandlerTools(localMode)}) =>
      /\ pcE[e] = "done"
      /\ HandlerResolved(e) =
           [error |-> << "Tool " \o handlerCall[e].name
                           \o " not found in available tools" >>]
      /\ ~handlerCall[e].executed
      /\ child[e] = NoChild
      /\ trace.exec[e] = NoTrace
      /\ toolCallCount = handlerCall[e].counted
      /\ trace.spawns = handlerCall[e].spawned

(***************************************************************************)
(* C19.  The OpenAI handler answers a tool call whose arguments are not    *)
(* valid JSON with {error: "Failed to parse tool arguments: <cause>"},     *)
(* whether or not it has a tool of that name: no executor runs, no process *)
(* is spawned and the counter of tool calls is as it was.                  *)
(***************************************************************************)
C19_InvalidArgumentsAreRejected ==
  \A e \in Execs :
    (handlerCall[e].via = "openai" /\ ~JSONParse(handlerCall[e].arguments).ok) =>
      /\ pcE[e] = "done"
      /\ HandlerResolved(e) =
           [error |-> << "Failed to parse tool arguments: "
                           \o JSONParse(handlerCall[e].arguments).error >>]
      /\ ~handlerCall[e].executed
      /\ child[e] = NoChild
      /\ trace.exec[e] = NoTrace
      /\ toolCallCount = handlerCall[e].counted
      /\ trace.spawns = handlerCall[e].spawned

C19_Witness ==
  \E e \in Execs :
    /\ handlerCall[e].via = "openai"
    /\ ~JSONParse(handlerCall[e].arguments).ok
    /\ handlerCall[e].name \in {t.name : t \in HandlerTools(localMode)}
    /\ handlerCall[e].counted > 0
    /\ pcE[e] = "done"

(***************************************************************************)
(* C20.  The execution of a tool of kind "ruby" probes nothing and spawns  *)
(* nothing, and returns {error: "Unsupported script type: ruby"}.  This is *)
(* the claim as stated; it fails when the Auto-Refresh that this execution *)
(* triggered has failed.                                                   *)
(***************************************************************************)
C20_UnsupportedKind ==
  \A e \in Execs :
    execTool[e].script_type = "ruby" =>
      /\ pcE[e] \in {"refreshing", "done"}
      /\ child[e] = NoChild
      /\ trace.exec[e].check = NotChecked
      /\ pcE[e] = "done" =>
           execResult[e] = [error |-> << "Unsupported script type: ruby" >>]

(***************************************************************************)
(* C20, amended.  The execution of a tool of kind "ruby" probes nothing    *)
(* and spawns nothing; it returns {error: "Unsupported script type: ruby"} *)
(* unless the Auto-Refresh that this execution triggered has failed, and   *)
(* then {error: "Error executing tool <name>: <cause>"}.                   *)
(***************************************************************************)
C20_UnsupportedKindUnlessRefreshFailed ==
  \A e \in Execs :
    execTool[e].script_type = "ruby" =>
      /\ pcE[e] \in {"refreshing", "done"}
      /\ child[e] = NoChild
      /\ trace.exec[e].check = NotChecked
      /\ pcE[e] = "done" =>
           execResult[e] =
             IF trace.exec[e].refreshed = "failed"
               THEN [error |-> << "Error executing tool " \o execTool[e].name \o ": "
                                    \o (IF localMode THEN LoadError ELSE FetchError) >>]
               ELSE [error |-> << "Unsupported script type: ruby" >>]

C20_Witness ==
  \E e \in Execs :
    /\ execTool[e].script_type = "ruby"
    /\ pcE[e] = "done"
    /\ trace.exec[e].refreshed = "ok"
    /\ execResult[e] = [error |-> << "Unsupported script type: ruby" >>]
    /\ environmentChecks["ruby"] = NotChecked
    /\ trace.spawns = 0

(***************************************************************************)
(* C21.  getConversationHistory() called right after resetConversation()   *)
(* returns an empty sequence, whatever invoke() calls (answered with text, *)
(* with tool calls or with an error) came before the reset.                *)
(***************************************************************************)
C21_ResetEmptiesHistory ==
  (last.ev = "history" /\ held.after = "reset") =>
    /\ HeldItems(held) = <<>>
    /\ messages = <<>>

C21_Witness ==
  /\ last.ev = "history"
  /\ held.after = "reset"
  /\ pc[1] = "idle"
  /\ Len(result[1].messages) > 2
  /\ toolRuns # <<>>

(***************************************************************************)
(* C22.  Each driver has its history to itself: a step of invoke() or a    *)
(* resetConversation() of one driver leaves the history of the other       *)
(* driver of the adapter as it was, in both directions.                    *)
(***************************************************************************)
C22_HistoriesAreSeparate ==
  [][ /\ (SeqInvoke \/ DriverStep(1) \/ ResetConversation) =>
           HeldItems(peer)' = HeldItems(peer)
      /\ (\E push \in BOOLEAN : PeerStep(push)) => messages' = messages ]_vars

C22_Witness ==
  /\ last.ev = "reset"
  /\ last.prior # <<>>
  /\ HeldItems(peer) # <<>>
  /\ messages = <<>>

(***************************************************************************)
(* C23.  The sequences returned by getConversationHistory() and in the     *)
(* messages field of the result of invoke() are copies: when the caller    *)
(* adds, removes or reorders entries of one, the history of the driver is  *)
(* as it was, and what the driver does later leaves the returned sequence  *)
(* as the caller has it.                                                   *)
(***************************************************************************)
C23_ReturnedSequencesAreCopies ==
  /\ last.ev = "change" => messages = last.prior
  /\ HeldItems(held) = held.items

C23_Witness ==
  /\ last.ev \in {"modelReply", "toolReply", "contReply", "reset"}
  /\ held.from = "invoke"
  /\ held.items # messages
  /\ held.items # result[1].messages
  /\ historyOps = 2

(***************************************************************************)
(* C26.  With the auto-refresh threshold 0 auto-refresh is off: however    *)
(* many tools are executed, no execution starts a refresh and the counter  *)
(* of tool calls is never reset, so it counts every execution.             *)
(***************************************************************************)
C26_ZeroThresholdNeverRefreshes ==
  autoRefreshCount = 0 =>
    /\ trace.refreshes = 0
    /\ \A e \in Execs : pcE[e] # "refreshing" /\ trace.exec[e].refreshed = "no"
    /\ toolCallCount = trace.recordCalls

C26_Witness ==
  /\ autoRefreshCount = 0
  /\ trace.recordCalls = MaxExecs
  /\ toolCallCount = MaxExecs
  /\ pcE[1] = "done"

(***************************************************************************)
(* C27.  At most one refreshTools() is in flight on an adapter: when tool  *)
(* executions overlap and reach the auto-refresh threshold while a refresh *)
(* still waits for its load, no second refresh is started.  This is the    *)
(* claim as stated; it fails because nothing serializes the refreshes.     *)
(***************************************************************************)
C27_OneRefreshInFlight ==
  Cardinality({ e \in Execs : pcE[e] = "refreshing" }) <= 1

(***************************************************************************)
(* C24.  setAutoRefreshCount(n) with n < 0 throws and leaves the threshold *)
(* and the counter of tool calls as they were; with n >= 0 it sets the     *)
(* threshold to n and leaves the counter and the tool map as they were.    *)
(***************************************************************************)
C24_SetAutoRefreshCount ==
  lastR.op = "setAutoRefreshCount" =>
    IF lastR.found < 0
      THEN /\ lastR.ret.status = "raised"
           /\ lastR.after = lastR.before
      ELSE /\ lastR.ret.status = "returned"
           /\ lastR.after = [lastR.before EXCEPT !.autoRefreshCount = lastR.found]

C24_Witness ==
  /\ lastR.op = "setAutoRefreshCount"
  /\ lastR.found = 0
  /\ lastR.before.autoRefreshCount = MaxThreshold
  /\ lastR.before.toolCallCount > 0
  /\ lastR.before.toolsMap # <<>>
  /\ autoRefreshCount = 0

(***************************************************************************)
(* C25.  Configuration errors fail at construction: the constructor throws *)
(* for a missing or empty locator and for a negative autoRefreshCount, so  *)
(* that every constructed adapter has a locator and a threshold that is    *)
(* not negative.  This is the claim as stated; it fails because the        *)
(* constructor checks neither the count nor the folder path.               *)
(***************************************************************************)
C25_ConstructorFailsFast ==
  locator.status = "constructed" =>
    /\ autoRefreshCount >= 0
    /\ locator.apiKey # "" \/ locator.folderPath # ""

(***************************************************************************)
(* C28.  An Environment Check that is in the cache is what an execution    *)
(* gets, without a probe of the host, and it stays in the cache until      *)
(* recheckEnvironment clears the cache (called by the user with            *)
(* forceRefresh, or by initialize()), which clears every entry; an         *)
(* execution probes the host only for a kind that is not cached.  When a   *)
(* forced recheckEnvironment has settled, the cache holds the checks of    *)
(* bash, of python and of the kinds of the tools that were loaded when it  *)
(* was called, and no others.                                              *)
(***************************************************************************)
C28_ExecutionConsults ==
  \/ RegistryExecute /\ pcE'[1] # "refreshing"
  \/ RefreshDone(1) /\ trace'.exec[1].refreshed = "ok"

C28_CacheIsCleared ==
  /\ lastR' # lastR
  /\ \/ lastR'.ev = "call" /\ lastR'.op = "recheckEnvironment"
          /\ opR'[lastR'.call].force
     \/ lastR'.ev = "loaded" /\ lastR'.op \in {"initialize", "select"}
          /\ ~skipInitialEnvironmentCheck

C28_ChecksAreCached ==
  /\ [][ /\ C28_ExecutionConsults =>
              LET cached == environmentChecks[execTool'[1].script_type]
              IN IF cached = NotChecked
                   THEN pcE'[1] = "probing"
                   ELSE pcE'[1] # "probing" /\ trace'.exec[1].check = cached
         /\ \A k \in CheckedKinds :
              (environmentChecks[k] # NotChecked
                 /\ environmentChecks'[k] # environmentChecks[k]) =>
                /\ C28_CacheIsCleared
                /\ environmentChecks' = [c \in CheckedKinds |-> NotChecked] ]_vars
  /\ [](/\ (lastR.ev = "call" /\ lastR.op = "recheckEnvironment") =>
             opR[lastR.call].kinds =
               { lastR.before.toolsMap[n].script_type :
                   n \in DOMAIN lastR.before.toolsMap } \cup {"bash", "python"}
        /\ (lastR.ev = "rechecked" /\ opR[lastR.call].force) =>
             /\ { k \in CheckedKinds :
                    lastR.after.environmentChecks[k] # NotChecked }
                  = opR[lastR.call].kinds
             /\ \A k \in opR[lastR.call].kinds :
                  lastR.after.environmentChecks[k] = ProbeResult(k, host))

(***************************************************************************)
(* C29.  The Environment Check of a kind the SDK does not know is not      *)
(* stored in the cache: when recheckEnvironment has checked "ruby", the    *)
(* kind of a loaded tool, the cache has no entry for "ruby".  This is the  *)
(* claim as stated; it fails because checkEnvironment caches every result. *)
(***************************************************************************)
C29_UnknownKindIsNotCached ==
  (lastR.ev \in {"probed", "rechecked"} /\ "ruby" \in opR[lastR.call].kinds) =>
    lastR.after.environmentChecks["ruby"] = NotChecked

(***************************************************************************)
(* C30.  Lookups never change the registry: once the adapter is            *)
(* initialized, no step of getToolsByNames past its ensureInitialized()    *)
(* (all tools, tools by name or by version, found or fallen back to the    *)
(* map) changes the tool map or the counter of tool calls, and neither     *)
(* does a change that the caller makes to the map it was given.            *)
(***************************************************************************)
C30_LookupsLeaveRegistry ==
  (/\ lastR.op = "select"
   /\ lastR.before.initialized
   /\ lastR.ev \in {"noop", "selected", "selectFailed", "mutated"}) =>
    /\ lastR.after.toolsMap = lastR.before.toolsMap
    /\ lastR.after.toolCallCount = lastR.before.toolCallCount

\* the caller of getToolsByNames([]) has deleted an entry of the map it got from
\* a registry that has tools and has counted a call
C30_Witness ==
  /\ lastR.ev = "mutated"
  /\ lastR.names = <<>>
  /\ lastR.before.initialized
  /\ lastR.before.toolsMap # <<>>
  /\ lastR.before.toolCallCount > 0
  /\ DOMAIN lastR.ret.value # DOMAIN lastR.after.toolsMap
  /\ "mine" \notin DOMAIN lastR.ret.value

(***************************************************************************)
(* C31.  Without resetConversation() the history only grows: every step of *)
(* an invoke(), whether it answers with text, uses tools or fails, leaves  *)
(* the history it found as a prefix of the history it leaves, and each     *)
(* invoke() has appended its user message and, right after it, an          *)
(* assistant message by the time it returns.                               *)
(***************************************************************************)
C31_IsPrefix(a, b) == Len(a) <= Len(b) /\ SubSeq(b, 1, Len(a)) = a

C31_IsUserInput(m) == m.role = "user" /\ "content" \in DOMAIN m

C32_FileOrInlineFlag ==
  \A e \in Execs :
    child[e] # NoChild =>
      \/ /\ execTool[e].script_path # ""
         /\ child[e].args[1] = execTool[e].script_path
      \/ /\ Len(child[e].args) >= 2
         /\ child[e].args[1] = "-c"
         /\ child[e].args[2] = execTool[e].script

(***************************************************************************)
(* C33.  The object an execution hands its script is the args of the       *)
(* caller with the field openv added, which holds the environment          *)
(* variables the adapter has when the executor builds the object (after    *)
(* its refresh and its Environment Check, not when the executor was        *)
(* created or called); an openv among the args is replaced.                *)
(***************************************************************************)
C33_OpenvIsInjected ==
  [][\A e \in Execs :
       (pcE'[e] \in {"running", "spawnFailed"} /\ pcE[e] # pcE'[e]) =>
         /\ DOMAIN handed'[e] = DOMAIN execArgs'[e] \cup {"openv"}
         /\ handed'[e].openv = environmentVariables
         /\ \A k \in DOMAIN execArgs'[e] \ {"openv"} :
              handed'[e][k] = execArgs'[e][k]]_vars

\* a child was started after a refresh, with variables that were set twice by
\* then, for a caller that brought an openv of its own
C33_Witness ==
  /\ pcE[1] = "running"
  /\ trace.exec[1].refreshed = "ok"
  /\ "openv" \in DOMAIN execArgs[1]
  /\ handed[1].openv = [KEY |-> "2"]
  /\ handed[1].text = "hi"

(***************************************************************************)
(* C34.  Every result that a tool executor or a tool handler resolves to   *)
(* has exactly one of the fields output and error, whatever the path: a    *)
(* run of the script, an Environment Check that failed, an unsupported     *)
(* kind, an unknown tool, arguments that do not parse, a failed refresh.   *)
(* This is the claim as stated; it fails for a tool call whose name is a   *)
(* key of Object.prototype.                                                *)
(***************************************************************************)
C34_OneField(res) == ("output" \in DOMAIN res) # ("error" \in DOMAIN res)

C34_ExactlyOneOfOutputAndError ==
  \A e \in Execs :
    pcE[e] = "done" =>
      /\ handlerCall[e].executed => C34_OneField(execResult[e])
      /\ handlerCall[e].via # "none" => C34_OneField(HandlerResolved(e))

(***************************************************************************)
(* C35.  When the refresh that an execution started fails, the execution   *)
(* resolves to {error: "Error executing tool <name>: ..."} without a       *)
(* child, the counter of tool calls stays at or above the threshold, and   *)
(* an execution that starts while it is there starts a refresh again.      *)
(***************************************************************************)
C35_FailedRefreshIsRetried ==
  [][\A e \in Execs :
       /\ (pcE[e] = "refreshing" /\ pcE'[e] # "refreshing"
             /\ trace'.exec[e].refreshed = "failed") =>
            /\ pcE'[e] = "done"
            /\ execResult'[e] =
                 ToolExecutorCaught(execTool[e], LoadFailure(localMode, locator))
            /\ child'[e] = NoChild
            /\ trace'.spawns = trace.spawns
            /\ toolCallCount' = toolCallCount
            /\ toolCallCount' >= autoRefreshCount
       /\ (trace.exec[e].refreshed = "failed" /\ pcE[e] = "done"
             /\ trace'.recordCalls > trace.recordCalls) =>
            pcE'[e] = "refreshing"]_vars

\* a third execution in a row has failed at its refresh
C35_Witness ==
  /\ trace.recordCalls = MaxExecs
  /\ trace.refreshes = MaxExecs
  /\ pcE[1] = "done"
  /\ trace.exec[1].refreshed = "failed"
  /\ trace.spawns = 0
  /\ toolCallCount = MaxExecs

(***************************************************************************)
(* C36.  A refresh does not reach a handler that exists: the handler runs  *)
(* the definition of a tool that it was created with, also when the        *)
(* registry has another definition under that name by now, and it answers  *)
(* that a tool is not found when the registry got it after the handler was *)
(* created.                                                                *)
(***************************************************************************)
C36_NotFound(name) ==
  [error |-> << "Tool " \o name \o " not found in available tools" >>]

C36_HandlersKeepTheirTools ==
  \A e \in Execs :
    LET name == handlerCall[e].name
        captured == HandlerTools(localMode)
    IN handlerCall[e].via # "none" =>
         /\ handlerCall[e].executed =>
              /\ execTool[e] \in captured
              /\ execTool[e].name = name
              /\ child[e] # NoChild =>
                   \/ execTool[e].script_path \in Range(child[e].args)
                   \/ execTool[e].script \in Range(child[e].args)
         /\ (/\ name \notin {t.name : t \in captured} \cup InheritedKeys
             /\ HandlerInput(handlerCall[e].via, handlerCall[e].arguments).ok) =>
              /\ ~handlerCall[e].executed
              /\ HandlerResolved(e) = C36_NotFound(name)

\* after a refresh that found the second catalog, the handler has run "calc"
\* as it was in the first
C36_Witness ==
  /\ ~localMode
  /\ toolsMap = ToolsMapOf(RemoteCatalogV2)
  /\ handlerCall[1].executed
  /\ handlerCall[1].name = "calc"
  /\ trace.exec[1].refreshed = "no"
  /\ pcE[1] = "done"
  /\ child[1] # NoChild
  /\ "print(1)" \in Range(child[1].args)
  /\ toolsMap["calc"].script = "print(2)"

(***************************************************************************)
(* C37.  The catalog is loaded once per initialization: while the          *)
(* initialize() that the constructor started is loading or probing, no     *)
(* other call is in a load or a probe of initialize() of its own.          *)
(***************************************************************************)
C37_Initializing(r) == pcR[r] \in {"initLoading", "initProbing"}

C37_OneLoadPerInitialization ==
  \A r, q \in Regs : (C37_Initializing(r) /\ C37_Initializing(q)) => r = q

(***************************************************************************)
(* C38.  In the OpenAI driver that was configured with a system prompt,    *)
(* every model request, the first of an invoke() and every continuation,   *)
(* has the system message as its first message, and the history never has  *)
(* a system message.                                                       *)
(***************************************************************************)
C38_SystemMessageLeadsEveryRequest ==
  /\ \A c \in ConcCalls :
       pc[c] \in {"awaitModel", "awaitCont"} =>
         /\ request[c] # <<>>
         /\ request[c][1] \in {SystemMessage(sys) : sys \in SystemPrompts}
  /\ \A i \in DOMAIN messages : messages[i].role # "system"

(***************************************************************************)
(* C39.  resetConversation() while an invoke() awaits the model or a tool  *)
(* does not cancel the invoke(): it empties the history and leaves the     *)
(* invoke() at its await, and what the invoke() pushes afterwards is       *)
(* appended to the history as it is then.  So the history can afterwards   *)
(* begin with a tool result or an assistant message that no user message   *)
(* and no tool-call turn precedes.                                         *)
(***************************************************************************)
C39_ResetDoesNotCancel ==
  [][/\ last'.ev = "reset" =>
          /\ messages' = <<>>
          /\ pc' = pc /\ stack' = stack /\ request' = request
     /\ last'.ev \in {"modelReply", "toolReply", "contReply"} =>
          /\ pc[last'.call] # "idle"
          /\ C31_IsPrefix(messages, messages')
          /\ Len(messages') > Len(messages) \/ last'.ev = "toolReply"]_vars

\* a reset came while the invoke() awaited its tool: the invoke() has returned
\* and the history begins with the tool result
C39_Witness ==
  /\ pc[1] = "idle"
  /\ result[1] # NoResult
  /\ last.ev = "contReply"
  /\ last.end = "return"
  /\ historyOps = 1
  /\ held = NoHeld
  /\ messages # <<>>
  /\ IsToolResult(messages[1])
  /\ \A i \in DOMAIN messages :
       /\ ~IsToolCallTurn(messages[i])
       /\ messages[i].role = "user" => IsToolResult(messages[i])

(***************************************************************************)
(* C40.  On single-tool turns the two drivers are equivalent.  When every  *)
(* response of the model so far either asked for one tool and had no text  *)
(* or was a text, the driver of the other provider, run on the same        *)
(* script, takes every step of it at the same await, has made as many      *)
(* model requests and the same tool calls in the same order, has a history *)
(* of the same abstract turns and has returned the same text.              *)
(***************************************************************************)
C40_Other(p) == IF p = "openai" THEN "anthropic" ELSE "openai"

\* a script of single-tool turns and texts
C40_SingleToolTurns(steps) ==
  \A i \in DOMAIN steps :
    /\ steps[i].ev # "error"
    /\ steps[i].ev = "reply" => steps[i].kind \in {"tool", "text"}

\* the abstract turn a message of a history is
C40_Turn(m) ==
  IF IsToolCallTurn(m)
    THEN [turn |-> "assistant tool-call", ids |-> TurnIds(m), text |-> <<>>]
  ELSE IF IsToolResult(m)
    THEN [turn |-> "tool-result", ids |-> << ResultId(m) >>,
          text |-> << IF "tool_call_id" \in DOMAIN m THEN m.content
                                                    ELSE m.blocks[1].content >>]
  ELSE [turn |-> m.role, ids |-> <<>>, text |-> m.content]

C40_Turns(msgs) == [i \in DOMAIN msgs |-> C40_Turn(msgs[i])]

C40_DriversAreEquivalent ==
  C40_SingleToolTurns(scenario) =>
    LET other == Drive(C40_Other(provider), NewDriver, scenario)
    IN /\ other.ok
       /\ other.pc = pc[1]
       /\ other.modelCalls = modelCalls
       /\ other.toolRuns = toolRuns
       /\ C40_Turns(other.messages) = C40_Turns(messages)
       /\ (pc[1] = "idle" /\ invokes > 0) => other.text = result[1].text

====
